---- MODULE Spec2Model ----
(***************************************************************************)
(* Per-guild playback scheduler of SoundRift (src/bot.py, class            *)
(* MusicPlayer): the pending queue (the deque inside asyncio.Queue), the   *)
(* single consumer task running _player_loop, the voice transport, the     *)
(* after-play completion callback, and the command operations.             *)
(*                                                                         *)
(* Tracks are numbered 1..MaxTracks in the order the command handlers      *)
(* construct them (every /play and /playnext builds a fresh Track object). *)
(* Atomicity follows asyncio: a step of the model runs a coroutine from    *)
(* one suspension point (an await that really suspends) to the next.       *)
(***************************************************************************)
EXTENDS Integers, Naturals, Sequences, FiniteSets, TLC

\* ---------------------------------------------------------------- bounds
MaxTracks == 2      \* Track objects the command handlers create
MaxTasks == 2       \* task slots available to asyncio.create_task(_player_loop())
MaxBg == 1          \* buffered-enqueue tasks that can be live at a time
MaxEdits == 1       \* forced panel edits that can be in flight at a time
ThrottleTracks == 2 \* Track objects created in the throttle scenario
ThrottleMaxTime == 3 \* the clock of the throttle scenario is followed up to here
ThrottleMaxDen == 20000 \* refresh intervals are followed up to this denominator
StopTracks == 2     \* Track objects created in the teardown scenario
MaxAudience == 1    \* non-bot members that can be in the voice channel
EmptyMaxTime == 40  \* the clock of the empty-room scenario is followed up to here
IdleMaxTime == 330  \* the clock of the idle scenario is followed up to here
IdleStep == 30      \* the short time step of the idle scenario
IdleTracks == 2     \* Track objects created in the idle scenario
MaxErrors == 2      \* the count of logged playback failures saturates here
E2ETracks == 3      \* tracks enqueued in the end-to-end scenario
SessionTracks == 3  \* Track objects created in the session scenario
SkipToTracks == 4   \* Track objects created in the skip_to scenario
QueueTracks == 4    \* Track objects created in the queue-only scenario
ShuffleTracks == 4  \* Track objects created in the shuffle scenario
HistoryTracks == 27 \* Track objects created in the long-session scenario
HistoryAhead == 2   \* pending tracks at which the long session's listener stops queueing
MaxTime == 2        \* the monotonic clock is followed up to this reading
MaxPending == 3     \* previous() is not issued once queue + history hold this many entries
PauseTracks == 2    \* Track objects created in the pause scenario
PauseMaxTime == 3   \* the clock of the pause scenario is followed up to here
ElapsedTracks == 2  \* Track objects created in the elapsed-time scenario
ElapsedMaxTime == 3 \* the clock of the elapsed-time scenario is followed up to here
StatusTracks == 12  \* Track objects created in the status scenario
HeadTracks == 2     \* Track objects created in the head-insert scenario
VolumeTracks == 2   \* Track objects created in the volume scenario
ActivityTracks == 2 \* Track objects created in the activity scenario
ActivityMaxTime == 1 \* the clock of the activity scenario is followed up to here

\* ------------------------------------------------------ program constants
HistoryMaxLen == 25 \* deque(maxlen=25)
NoTrack == 0        \* Optional[Track] = None
NoTime == -1        \* Optional[float] = None
NoTask == 0         \* Optional[asyncio.Task] = None
NoVolume == -1      \* voice.source is None
DEFAULT_VOLUME == 100                   \* 1.0, in hundredths
VOLUME_STEP == 10                       \* 0.1, in hundredths
MaxVolume == 200                        \* 2.0, in hundredths
IDLE_DISCONNECT_SECONDS == 300
EMPTY_CHANNEL_DISCONNECT_SECONDS == 30
WatchPeriod == 5                        \* asyncio.sleep(5) in the watcher
PreviewLen == 10                        \* queue_snapshot()[:10]
One == [n |-> 1, d |-> 1]               \* 1.0, the start and floor of _np_interval
Five == [n |-> 5, d |-> 1]              \* 5.0, the cap of _np_interval

\* variant of Clamp for C19: the lower limit only
ClampFloorOnly(v) == IF v < 0 THEN 0 ELSE v

\* max(0.0, min(v, 2.0)), in hundredths
Clamp(v) == IF v > MaxVolume THEN MaxVolume ELSE IF v < 0 THEN 0 ELSE v

VARIABLES
    queue,              \* self.queue._queue : the pending deque, head first
    current,            \* self.current
    history,            \* self.history, oldest first
    voice,              \* self.voice: "none" | "conn" | "closing" (disconnect() in progress)
                        \*   | "lost" (a client that is no longer connected)
    vstate,             \* the voice client's audio player: "idle" | "playing" | "paused"
    vsource,            \* the track whose source the audio player holds (NoTrack when idle)
    tasks,              \* task slot -> position of that _player_loop coroutine
    player_task,        \* self._player_task: NoTask or the slot of the task it refers to
    track_done,         \* self._track_done: "none" | "unset" | "set"
    after_calls,        \* after-callbacks the audio player thread still has to run
    stop_pc,            \* position of the stop() coroutine: "idle" | "disconnecting"
    np_update_task,     \* self._np_update_task is a live task
    disconnect_watch_task, \* self._disconnect_watch_task is a live task
    made,               \* number of Track objects constructed so far
    ret,                \* what the most recent command call returned or raised
    errors,             \* number of logger.exception("Failed to play track") records
    now,                \* time.monotonic()
    last_activity,      \* self._last_activity
    started_monotonic,  \* self._started_monotonic
    paused_at,          \* self._paused_at
    paused_total,       \* self._paused_total
    bg_tasks,           \* buffered-enqueue task -> "none" | "start" | "buffering" | "finishing"
    audience,           \* non-bot members in the voice channel
    connected_at,       \* when channel.connect() last returned (NoTime: never)
    empty_since,        \* self._empty_since
    watch_pc,           \* the watcher task: "none" | "sleeping" | "empty_trip" | "idle_trip"
    watch_wake,         \* when the watcher's asyncio.sleep(5) ends
    volume,             \* self.volume, in hundredths
    vvolume,            \* volume of the source held by the voice client (NoVolume: no source)
    np_interval,        \* self._np_interval, a fraction [n, d]
    last_np_edit,       \* self._last_np_edit
    np_edit,            \* the updater's panel edit in flight: the `now` it read (NoTime: none)
    panel_message,      \* self._panel_message is not None
    forced_edits,       \* forced panel edit in flight -> the `now` it read (NoTime: none)
    track_fields,       \* the optional fields of one Track object, followed through enrichment
    resolver_info       \* the info dict ytdlp_resolve returned for it (NoInfo: not resolved yet)

clock == <<now, last_activity, started_monotonic, paused_at, paused_total>>
transport == <<voice, vstate, vsource, after_calls>>
watchdog == <<empty_since, watch_pc, watch_wake>>
sound == <<volume, vvolume>>
throttle == <<np_interval, last_np_edit>>
updater == <<np_update_task, np_edit>>
ui == <<panel_message, forced_edits>>
enrichment == <<track_fields, resolver_info>>
vars == <<queue, current, history, voice, vstate, vsource, tasks, player_task,
          track_done, after_calls, stop_pc, np_update_task, disconnect_watch_task,
          made, ret, errors, now, last_activity, started_monotonic, paused_at,
          paused_total, bg_tasks, audience, connected_at, empty_since, watch_pc,
          watch_wake, volume, vvolume, np_interval, last_np_edit, np_edit,
          panel_message, forced_edits, track_fields, resolver_info>>

Slots == 1..MaxTasks
BgSlots == 1..MaxBg
EditSlots == 1..MaxEdits
\* no forced edit is in flight
NoEdits == [e \in EditSlots |-> NoTime]
\* self._bg_tasks is empty
NoBgTasks == [b \in BgSlots |-> "none"]
LivePcs == {"get", "blocked", "resolving", "posting", "waiting"}
InFlightPcs == {"resolving", "posting", "waiting"}
LiveTasks == {i \in Slots : tasks[i] \in LivePcs}

\* a command's outcome: the value it returned (None as 0, False/True as 0/1, a
\* Track as its number) or the exception it raised
Returned(op, val) == [op |-> op, err |-> "", val |-> val]
Raised(op, exc) == [op |-> op, err |-> exc, val |-> 0]

\* ------------------------------------------------------- track enrichment
\* None in an Optional[str] field, and in Optional[int] duration
Unknown == "<None>"
NoDuration == -1

\* Track(query=..., requested_by=...) with every optional field left at None
BareTrack ==
    [query |-> "Query0", title |-> Unknown, artist |-> Unknown, webpage_url |-> Unknown,
     duration |-> NoDuration, thumbnail |-> Unknown]

\* no info dict yet
NoInfo ==
    [title |-> Unknown, webpage_url |-> Unknown, duration |-> NoDuration,
     thumbnail |-> Unknown, url |-> Unknown, artist |-> Unknown, creator |-> Unknown,
     uploader |-> Unknown, channel |-> Unknown]

\* the Track objects followed: each optional field unknown or known, the title
\* also empty and the duration also zero
TrackInputs ==
    [query : {"Query0"}, title : {Unknown, "", "Title0"}, artist : {Unknown, "Artist0"},
     webpage_url : {Unknown, "Url0"}, duration : {NoDuration, 0, 200},
     thumbnail : {Unknown, "Thumb0"}]

\* the info dicts followed: each key absent or present, the artist keys also
\* blank or padded
InfoInputs ==
    [title : {Unknown, "Title1"}, webpage_url : {Unknown, "Url1"},
     duration : {NoDuration, 300}, thumbnail : {Unknown, "Thumb1"}, url : {"Stream1"},
     artist : {Unknown, " ", "Artist1"}, creator : {Unknown},
     uploader : {Unknown, " Uploader1 "}, channel : {Unknown, "Channel1"}]

\* bool(x) is False for None and for the empty string
Falsy(x) == x \in {Unknown, ""}

\* Python's `a or b`
Or(a, b) == IF Falsy(a) THEN b ELSE a

\* str.strip() on the strings followed
Strip(x) ==
    CASE x = " " -> ""
      [] x = " Uploader1 " -> "Uploader1"
      [] OTHER -> x

\* _pick_artist_from_info(info): the first of the keys that holds a non-blank
\* string, stripped
PickArtist(info) ==
    LET usable(v) == v # Unknown /\ Strip(v) # ""
    IN  IF usable(info.artist) THEN Strip(info.artist)
        ELSE IF usable(info.creator) THEN Strip(info.creator)
        ELSE IF usable(info.uploader) THEN Strip(info.uploader)
        ELSE IF usable(info.channel) THEN Strip(info.channel)
        ELSE Unknown

\* lines 883-887: the fields of self.current after the resolution returned info
Enriched(t, info) ==
    [query |-> t.query,
     title |-> Or(t.title, Or(info.title, "Unknown title")),
     webpage_url |-> Or(info.webpage_url, Or(t.webpage_url, t.query)),
     duration |-> IF t.duration = NoDuration THEN info.duration ELSE t.duration,
     artist |-> Or(t.artist, PickArtist(info)),
     thumbnail |-> Or(t.thumbnail, info.thumbnail)]

\* ------------------------------------------------------------ construction
Init ==
    /\ queue = <<>>
    /\ current = NoTrack
    /\ history = <<>>
    /\ voice = "none"
    /\ vstate = "idle"
    /\ vsource = NoTrack
    /\ tasks = [i \in Slots |-> "free"]
    /\ player_task = NoTask
    /\ track_done = "none"
    /\ after_calls = 0
    /\ stop_pc = "idle"
    /\ np_update_task = FALSE
    /\ disconnect_watch_task = FALSE
    /\ made = 0
    /\ ret = Returned("none", 0)
    /\ errors = 0
    /\ now = 0
    /\ last_activity = 0
    /\ started_monotonic = NoTime
    /\ paused_at = NoTime
    /\ paused_total = 0
    /\ bg_tasks = NoBgTasks
    /\ audience = 1
    /\ connected_at = NoTime
    /\ empty_since = NoTime
    /\ watch_pc = "none"
    /\ watch_wake = NoTime
    /\ volume = Clamp(DEFAULT_VOLUME)
    /\ vvolume = NoVolume
    /\ np_interval = One
    /\ last_np_edit = 0
    /\ np_edit = NoTime
    /\ panel_message = FALSE
    /\ forced_edits = NoEdits
    /\ track_fields = BareTrack
    /\ resolver_info = NoInfo

\* ------------------------------------------------- Python / library helpers
Min(S) == CHOOSE x \in S : \A y \in S : x <= y

\* variant of AppendLeft for C10: the track is put at the tail
AppendRight(q, x) == q \o <<x>>

\* collections.deque.appendleft
AppendLeft(q, x) == <<x>> \o q

\* variant of ListPop for C9: the element after idx is taken out
ListPopAfter(items, idx) ==
    SubSeq(items, 1, idx + 1) \o SubSeq(items, idx + 3, Len(items))

\* list.pop(idx) on a 0-based index: the list without that element
ListPop(items, idx) == SubSeq(items, 1, idx) \o SubSeq(items, idx + 2, Len(items))

\* variant of SliceFrom for C4: the track at idx is dropped as well
SliceFromNext(items, idx) == SubSeq(items, idx + 2, Len(items))

\* items[:idx] and items[idx:] on a 0-based index
SliceTo(items, idx) == SubSeq(items, 1, idx)
SliceFrom(items, idx) == SubSeq(items, idx + 1, Len(items))

\* variant of Shuffled for C11: every position is drawn from the list anew
ShuffledWithRepeats(items) == [1..Len(items) -> {items[k] : k \in 1..Len(items)}]

\* random.shuffle(items): the lists it can leave, one per rearrangement of positions
Shuffled(items) ==
    LET idx == 1..Len(items)
        rearr == {f \in [idx -> idx] : \A a, b \in idx : a # b => f[a] # f[b]}
    IN  {[k \in idx |-> items[f[k]]] : f \in rearr}

\* logger.exception(...) in the except-branch of the loop; the count saturates
LogError(n) == IF n < MaxErrors THEN n + 1 ELSE n

\* variant of PopLeft for C1: the consumer takes the newest pending track
PopRight(q) == [item |-> q[Len(q)], rest |-> SubSeq(q, 1, Len(q) - 1)]

\* deque.popleft, as asyncio.Queue._get does: the head and what stays behind
PopLeft(q) == [item |-> Head(q), rest |-> Tail(q)]

\* variant of HistoryAppend for C12: the deque has no maxlen
HistoryAppendUnbounded(h, t) == Append(h, t)

\* deque(maxlen=25).append: a full deque drops its oldest entry
HistoryAppend(h, t) ==
    IF Len(h) >= HistoryMaxLen THEN Append(Tail(h), t) ELSE Append(h, t)

\* self.voice.is_connected(): undetermined while disconnect() is in progress
ConnectedOutcomes ==
    IF voice = "conn" THEN {TRUE}
    ELSE IF voice = "closing" THEN {TRUE, FALSE}
    ELSE {FALSE}

\* channel.connect() when self.voice is unset or refers to a dead client
CanConnect == voice \in {"none", "lost"}

\* asyncio.Queue.put_nowait -> _wakeup_next(self._getters): the first blocked
\* getter is made runnable
WakeGetter(tk) ==
    LET blocked == {i \in Slots : tk[i] = "blocked"}
    IN  IF blocked = {} THEN tk ELSE [tk EXCEPT ![Min(blocked)] = "get"]

\* the condition of start_if_needed
NeedsStart(tk, pt) == pt = NoTask \/ tk[pt] = "done"

\* start_if_needed: create the consumer task unless one is referenced and not done
StartIfNeeded(tk, pt) ==
    LET reusable == {i \in Slots : tk[i] \in {"free", "done"}}
    IN  IF NeedsStart(tk, pt) /\ reusable # {}
        THEN [tasks |-> [tk EXCEPT ![Min(reusable)] = "get"], handle |-> Min(reusable)]
        ELSE [tasks |-> tk, handle |-> pt]

\* _stop_nowplaying_updater(): the updater task is cancelled, and with it the
\* edit it is waiting for
StopUpdater == np_update_task' = FALSE /\ np_edit' = NoTime

\* _start_disconnect_watcher: nothing when the watcher task is live, else a new
\* task is created, which starts by sleeping
StartWatcher ==
    IF disconnect_watch_task
    THEN UNCHANGED watchdog
    ELSE /\ watch_pc' = "sleeping"
         /\ watch_wake' = now + WatchPeriod
         /\ UNCHANGED empty_since

\* stop(): the watcher task is cancelled and _empty_since is cleared
StopWatcher ==
    /\ watch_pc' = "none"
    /\ watch_wake' = NoTime
    /\ empty_since' = NoTime

\* ------------------------------------------------------------ consumer loop
\* variant of LoopTop for C35: the loop does not look at the voice client after
\* the pop
LoopTopNoVoiceCheck(i, st) ==
    IF queue = <<>>
    THEN /\ tasks' = [tasks EXCEPT ![i] = "blocked"]
         /\ started_monotonic' = st
         /\ UNCHANGED <<queue, current, track_done, paused_at, paused_total>>
         /\ UNCHANGED throttle
    ELSE /\ queue' = PopLeft(queue).rest
         /\ current' = PopLeft(queue).item
         /\ track_done' = "unset"
         /\ started_monotonic' = NoTime
         /\ paused_at' = NoTime
         /\ paused_total' = 0
         /\ last_np_edit' = 0
         /\ np_interval' = One
         /\ tasks' = [tasks EXCEPT ![i] = "resolving"]

\* _player_loop from `while True` to its next suspension, run by task i:
\* queue.get() blocks on an empty deque; otherwise it pops the head without
\* suspending, and the loop either returns (no voice) or goes on to await
\* ytdlp_resolve.  `st` is the value _started_monotonic holds on entry.
LoopTop(i, st) ==
    IF queue = <<>>
    THEN /\ tasks' = [tasks EXCEPT ![i] = "blocked"]
         /\ started_monotonic' = st
         /\ UNCHANGED <<queue, current, track_done, paused_at, paused_total>>
         /\ UNCHANGED throttle
    ELSE /\ queue' = PopLeft(queue).rest
         /\ \E conn \in ConnectedOutcomes :
              IF ~conn
              THEN /\ current' = NoTrack
                   /\ tasks' = [tasks EXCEPT ![i] = "done"]
                   /\ started_monotonic' = st
                   /\ UNCHANGED <<track_done, paused_at, paused_total>>
                   /\ UNCHANGED throttle
              ELSE /\ current' = PopLeft(queue).item
                   /\ track_done' = "unset"
                   /\ started_monotonic' = NoTime
                   /\ paused_at' = NoTime
                   /\ paused_total' = 0
                   /\ last_np_edit' = 0
                   /\ np_interval' = One
                   /\ tasks' = [tasks EXCEPT ![i] = "resolving"]

\* the task is scheduled while at `await self.queue.get()` (just created, or its
\* getter was woken by a put)
ConsumerGet(i) ==
    /\ tasks[i] = "get"
    /\ LoopTop(i, started_monotonic)
    /\ UNCHANGED <<history, transport, player_task, stop_pc, updater,
                   disconnect_watch_task, made, ret, now, last_activity>>
    /\ UNCHANGED errors
    /\ UNCHANGED <<bg_tasks, audience, enrichment, ui, connected_at, watchdog, sound>>

\* variant of ResolveFail for C3: the exception is not caught and ends the task
ResolveFailUncaught(i) ==
    /\ tasks[i] = "resolving"
    /\ tasks' = [tasks EXCEPT ![i] = "done"]
    /\ UNCHANGED <<queue, current, history, transport, player_task, track_done,
                   stop_pc, updater, disconnect_watch_task, made, ret, errors>>
    /\ UNCHANGED clock
    /\ UNCHANGED <<bg_tasks, audience, enrichment, ui, connected_at, watchdog, sound, throttle>>

\* variant of ResolveFail for C30: the except-branch also pushes the failed
\* track to the history
ResolveFailPushes(i) ==
    /\ tasks[i] = "resolving"
    /\ StopUpdater
    /\ LoopTop(i, started_monotonic)
    /\ history' = IF current # NoTrack THEN HistoryAppend(history, current) ELSE history
    /\ UNCHANGED <<transport, player_task, stop_pc,
                   disconnect_watch_task, made, ret, now, last_activity>>
    /\ errors' = LogError(errors)
    /\ UNCHANGED <<bg_tasks, audience, enrichment, ui, connected_at, watchdog, sound>>

\* ytdlp_resolve raises, or the code before `_started_monotonic = ...` raises
\* (self.current is None after a stop(), info has no "url", no audio source):
\* except-branch, then the loop goes on
ResolveFail(i) ==
    /\ tasks[i] = "resolving"
    /\ StopUpdater
    /\ LoopTop(i, started_monotonic)
    /\ UNCHANGED <<history, transport, player_task, stop_pc,
                   disconnect_watch_task, made, ret, now, last_activity>>
    /\ errors' = LogError(errors)
    /\ UNCHANGED <<bg_tasks, audience, enrichment, ui, connected_at, watchdog, sound>>

\* resolution succeeded but self.voice.play raises (no voice, not connected,
\* already playing, or a transport error): except-branch, then the loop goes on
StartFail(i) ==
    /\ tasks[i] = "resolving"
    /\ current # NoTrack
    /\ StopUpdater
    /\ LoopTop(i, now)
    /\ UNCHANGED <<history, transport, player_task, stop_pc,
                   disconnect_watch_task, made, ret, now, last_activity>>
    /\ errors' = LogError(errors)
    /\ UNCHANGED <<bg_tasks, audience, enrichment, ui, connected_at, watchdog, sound>>

\* what self.voice.play needs in order not to raise
CanPlay(conn) == voice # "none" /\ conn /\ vstate = "idle"

\* resolution succeeded and the transport started: lines 883-903, up to the
\* await of post_new_panel_message
ResolveOk(i) ==
    /\ tasks[i] = "resolving"
    /\ current # NoTrack
    /\ \E conn \in ConnectedOutcomes : CanPlay(conn)
    /\ started_monotonic' = now
    /\ vstate' = "playing"
    /\ vsource' = current
    /\ last_activity' = now
    /\ disconnect_watch_task' = TRUE
    /\ StartWatcher
    /\ vvolume' = Clamp(volume)
    /\ tasks' = [tasks EXCEPT ![i] = "posting"]
    /\ UNCHANGED <<queue, current, history, voice, after_calls, player_task,
                   track_done, stop_pc, updater, made, ret, now,
                   paused_at, paused_total>>
    /\ UNCHANGED errors
    /\ UNCHANGED <<bg_tasks, audience, enrichment, ui, connected_at, volume, throttle>>

\* lines 907-910 and the loop top: the updater is stopped, the current track (if
\* any) goes to the history, the next track is fetched
Drain(i) ==
    /\ StopUpdater
    /\ history' = IF current # NoTrack THEN HistoryAppend(history, current) ELSE history
    /\ LoopTop(i, started_monotonic)

\* post_new_panel_message returned, with the new panel message or with None
\* when the send failed: the updater is started and the loop waits for
\* _track_done (without suspending when it is already set)
PanelPosted(i) ==
    /\ tasks[i] = "posting"
    /\ panel_message' \in BOOLEAN
    /\ IF track_done = "set"
       THEN Drain(i)
       ELSE /\ np_update_task' = TRUE
            /\ np_edit' = NoTime
            /\ tasks' = [tasks EXCEPT ![i] = "waiting"]
            /\ UNCHANGED <<queue, current, history, track_done, started_monotonic,
                           paused_at, paused_total>>
            /\ UNCHANGED throttle
    /\ UNCHANGED <<transport, player_task, stop_pc, disconnect_watch_task, made,
                   ret, now, last_activity>>
    /\ UNCHANGED errors
    /\ UNCHANGED <<bg_tasks, audience, enrichment, forced_edits, connected_at, watchdog, sound>>

\* _track_done.wait() returns
TrackDone(i) ==
    /\ tasks[i] = "waiting"
    /\ track_done = "set"
    /\ Drain(i)
    /\ UNCHANGED <<transport, player_task, stop_pc, disconnect_watch_task, made,
                   ret, now, last_activity>>
    /\ UNCHANGED errors
    /\ UNCHANGED <<bg_tasks, audience, enrichment, ui, connected_at, watchdog, sound>>

\* ---------------------------------------------------------------- transport
\* the source is exhausted: the audio player thread ends and owes its callback
NaturalEnd ==
    /\ vstate = "playing"
    /\ vstate' = "idle"
    /\ vsource' = NoTrack
    /\ after_calls' = after_calls + 1
    /\ UNCHANGED <<queue, current, history, voice, tasks, player_task, track_done,
                   stop_pc, updater, disconnect_watch_task, made, ret>>
    /\ UNCHANGED clock
    /\ UNCHANGED errors
    /\ UNCHANGED <<bg_tasks, audience, enrichment, ui, connected_at, watchdog, sound, throttle>>

\* _after_play runs on the player thread and the loop then runs the scheduled
\* Event.set: it sets whichever event self._track_done refers to at that time
AfterPlay ==
    /\ after_calls > 0
    /\ after_calls' = after_calls - 1
    /\ track_done' = IF track_done = "none" THEN "none" ELSE "set"
    /\ UNCHANGED <<queue, current, history, voice, vstate, vsource, tasks,
                   player_task, stop_pc, updater, disconnect_watch_task,
                   made, ret>>
    /\ UNCHANGED clock
    /\ UNCHANGED errors
    /\ UNCHANGED <<bg_tasks, audience, enrichment, ui, connected_at, watchdog, sound, throttle>>

\* ----------------------------------------------------------------- commands
\* voice.stop(): the audio player is stopped and owes its after-callback
VoiceStopped == vstate' = "idle" /\ vsource' = NoTrack /\ after_calls' = after_calls + 1

\* the condition under which skip() stops the transport
SkipStops == voice # "none" /\ vstate \in {"playing", "paused"}

\* the body of skip(): mark_activity, then stop the transport if it is busy
SkipBody ==
    /\ last_activity' = now
    /\ IF SkipStops THEN VoiceStopped ELSE UNCHANGED <<vstate, vsource, after_calls>>
    /\ UNCHANGED voice

\* ensure_voice(interaction): a caller who is in no voice channel gets an
\* AppCommandError.  Otherwise the caller's channel is the bot's channel.  While a
\* disconnect() is in progress either the old client still counts as connected
\* (nothing to do) or channel.connect() raises because the guild still has a
\* voice client, and the command ends there.  With a dead client channel.connect()
\* succeeds or raises, depending on whether the library has dropped the client.
EnsureVoiceBody ==
    /\ IF audience = 0
       THEN /\ ret' = Raised("ensure_voice", "AppCommandError")
            /\ UNCHANGED <<voice, vstate, vsource, last_activity, disconnect_watch_task,
                           connected_at, vvolume>>
            /\ UNCHANGED watchdog
       ELSE \E conn \in ConnectedOutcomes :
              \/ /\ CanConnect
                 /\ voice' = "conn" /\ vstate' = "idle" /\ vsource' = NoTrack
                 /\ connected_at' = now /\ vvolume' = NoVolume
                 /\ last_activity' = now /\ disconnect_watch_task' = TRUE
                 /\ StartWatcher
                 /\ ret' = Returned("ensure_voice", 0)
              \/ /\ voice # "none" /\ conn
                 /\ last_activity' = now /\ disconnect_watch_task' = TRUE
                 /\ StartWatcher
                 /\ ret' = Returned("ensure_voice", 0)
                 /\ UNCHANGED <<voice, vstate, vsource, connected_at, vvolume>>
              \/ /\ voice \in {"closing", "lost"} /\ ~conn
                 /\ ret' = Raised("ensure_voice", "ClientException")
                 /\ UNCHANGED <<voice, vstate, vsource, last_activity,
                                disconnect_watch_task, connected_at, vvolume>>
                 /\ UNCHANGED watchdog
    /\ UNCHANGED <<queue, current, history, after_calls, tasks, player_task,
                   track_done, stop_pc, updater, made, now,
                   started_monotonic, paused_at, paused_total>>
    /\ UNCHANGED errors
    /\ UNCHANGED <<audience, enrichment, ui, volume, throttle>>

\* ensure_voice called from a command handler that spawns no task
EnsureVoice == EnsureVoiceBody /\ UNCHANGED bg_tasks

\* add_track(Track(...)): mark_activity, queue.put (never blocks: the queue is
\* unbounded), start_if_needed.  The callers create at most n tracks.  What the
\* call does to everything but the set of buffered-enqueue tasks.
AddTrackBody(n) ==
    /\ made < n
    /\ made' = made + 1
    /\ last_activity' = now
    /\ queue' = Append(queue, made + 1)
    /\ LET st == StartIfNeeded(WakeGetter(tasks), player_task)
       IN  tasks' = st.tasks /\ player_task' = st.handle
    /\ ret' = Returned("add_track", 0)
    /\ UNCHANGED <<current, history, transport, track_done, stop_pc, updater,
                   disconnect_watch_task, now, started_monotonic, paused_at,
                   paused_total>>
    /\ UNCHANGED errors
    /\ UNCHANGED <<audience, enrichment, ui, connected_at, watchdog, sound, throttle>>

\* add_track called from a command handler
AddTrack(n) == AddTrackBody(n) /\ UNCHANGED bg_tasks

\* add_track_next(Track(...)): mark_activity, add_track_front, start_if_needed
AddTrackNext(n) ==
    /\ made < n
    /\ made' = made + 1
    /\ last_activity' = now
    /\ queue' = AppendLeft(queue, made + 1)
    /\ LET st == StartIfNeeded(tasks, player_task)
       IN  tasks' = st.tasks /\ player_task' = st.handle
    /\ ret' = Returned("add_track_next", 0)
    /\ UNCHANGED <<current, history, transport, track_done, stop_pc, updater,
                   disconnect_watch_task, now, started_monotonic, paused_at,
                   paused_total>>
    /\ UNCHANGED errors
    /\ UNCHANGED <<bg_tasks, audience, enrichment, ui, connected_at, watchdog, sound, throttle>>

\* skip()
Skip ==
    /\ SkipBody
    /\ ret' = Returned("skip", 0)
    /\ UNCHANGED <<queue, current, history, tasks, player_task, track_done, stop_pc,
                   updater, disconnect_watch_task, made, now,
                   started_monotonic, paused_at, paused_total>>
    /\ UNCHANGED errors
    /\ UNCHANGED <<bg_tasks, audience, enrichment, ui, connected_at, watchdog, sound, throttle>>

\* the queue previous() leaves: the current track (if any) is put at the head,
\* then the popped history entry is put at the head
PreviousQueue(q, cur, prev) ==
    AppendLeft(IF cur # NoTrack THEN AppendLeft(q, cur) ELSE q, prev)

\* variant of Previous for C7: skip() is called before the history is looked at
PreviousSkipsFirst ==
    /\ SkipBody
    /\ IF history = <<>>
       THEN /\ ret' = Returned("previous", 0)
            /\ UNCHANGED <<queue, history>>
       ELSE /\ Len(queue) + Len(history) < MaxPending
            /\ history' = SubSeq(history, 1, Len(history) - 1)
            /\ queue' = PreviousQueue(queue, current, history[Len(history)])
            /\ ret' = Returned("previous", 1)
    /\ UNCHANGED <<current, tasks, player_task, track_done, stop_pc, updater,
                   disconnect_watch_task, made, now, started_monotonic, paused_at,
                   paused_total>>
    /\ UNCHANGED errors
    /\ UNCHANGED <<bg_tasks, audience, enrichment, ui, connected_at, watchdog, sound, throttle>>

\* previous()
Previous ==
    /\ IF history = <<>>
       THEN /\ ret' = Returned("previous", 0)
            /\ UNCHANGED <<queue, history, transport, last_activity>>
       ELSE /\ Len(queue) + Len(history) < MaxPending
            /\ history' = SubSeq(history, 1, Len(history) - 1)
            /\ queue' = PreviousQueue(queue, current, history[Len(history)])
            /\ SkipBody
            /\ ret' = Returned("previous", 1)
    /\ UNCHANGED <<current, tasks, player_task, track_done, stop_pc, updater,
                   disconnect_watch_task, made, now, started_monotonic, paused_at,
                   paused_total>>
    /\ UNCHANGED errors
    /\ UNCHANGED <<bg_tasks, audience, enrichment, ui, connected_at, watchdog, sound, throttle>>

\* variant of Pause for C18: pause() without the is_playing() and
\* `_paused_at is None` tests
PauseRestamps ==
    /\ last_activity' = now
    /\ IF voice # "none" /\ vstate \in {"playing", "paused"}
       THEN /\ vstate' = "paused"
            /\ paused_at' = now
       ELSE UNCHANGED <<vstate, paused_at>>
    /\ ret' = Returned("pause", 0)
    /\ UNCHANGED <<queue, current, history, voice, vsource, after_calls, tasks,
                   player_task, track_done, stop_pc, updater,
                   disconnect_watch_task, made, now, started_monotonic, paused_total>>
    /\ UNCHANGED errors
    /\ UNCHANGED <<bg_tasks, audience, enrichment, ui, connected_at, watchdog, sound, throttle>>

\* pause()
Pause ==
    /\ last_activity' = now
    /\ IF voice # "none" /\ vstate = "playing"
       THEN /\ vstate' = "paused"
            /\ paused_at' = IF paused_at = NoTime THEN now ELSE paused_at
       ELSE UNCHANGED <<vstate, paused_at>>
    /\ ret' = Returned("pause", 0)
    /\ UNCHANGED <<queue, current, history, voice, vsource, after_calls, tasks,
                   player_task, track_done, stop_pc, updater,
                   disconnect_watch_task, made, now, started_monotonic, paused_total>>
    /\ UNCHANGED errors
    /\ UNCHANGED <<bg_tasks, audience, enrichment, ui, connected_at, watchdog, sound, throttle>>

\* variant of Resume for C24: resume() without the `_paused_total +=` line
ResumeForgetsPause ==
    /\ last_activity' = now
    /\ IF voice # "none" /\ vstate = "paused"
       THEN /\ vstate' = "playing"
            /\ paused_at' = NoTime
            /\ UNCHANGED paused_total
       ELSE UNCHANGED <<vstate, paused_at, paused_total>>
    /\ ret' = Returned("resume", 0)
    /\ UNCHANGED <<queue, current, history, voice, vsource, after_calls, tasks,
                   player_task, track_done, stop_pc, updater,
                   disconnect_watch_task, made, now, started_monotonic>>
    /\ UNCHANGED errors
    /\ UNCHANGED <<bg_tasks, audience, enrichment, ui, connected_at, watchdog, sound, throttle>>

\* resume()
Resume ==
    /\ last_activity' = now
    /\ IF voice # "none" /\ vstate = "paused"
       THEN /\ vstate' = "playing"
            /\ paused_total' = IF paused_at # NoTime
                               THEN paused_total + (now - paused_at) ELSE paused_total
            /\ paused_at' = NoTime
       ELSE UNCHANGED <<vstate, paused_at, paused_total>>
    /\ ret' = Returned("resume", 0)
    /\ UNCHANGED <<queue, current, history, voice, vsource, after_calls, tasks,
                   player_task, track_done, stop_pc, updater,
                   disconnect_watch_task, made, now, started_monotonic>>
    /\ UNCHANGED errors
    /\ UNCHANGED <<bg_tasks, audience, enrichment, ui, connected_at, watchdog, sound, throttle>>

\* set_volume(new_volume): the clamped value is stored, handed to the source
\* the voice client holds, and returned; the activity clock is not touched
SetVolume(v) ==
    /\ volume' = Clamp(v)
    /\ vvolume' = IF voice # "none" /\ vvolume # NoVolume THEN Clamp(v) ELSE vvolume
    /\ ret' = Returned("set_volume", Clamp(v))
    /\ UNCHANGED <<queue, current, history, transport, tasks, player_task, track_done,
                   stop_pc, updater, disconnect_watch_task, made, errors,
                   bg_tasks, audience, enrichment, ui, connected_at, watchdog, throttle>>
    /\ UNCHANGED clock

\* volume_up()
VolumeUp == SetVolume(volume + VOLUME_STEP)

\* volume_down()
VolumeDown == SetVolume(volume - VOLUME_STEP)

\* _elapsed_seconds() read at clock reading t from the fields st (start), pa
\* (pause began) and pt (paused total).  Clock readings are whole seconds, so
\* int() leaves the difference as it is.
ElapsedSeconds(t, st, pa, pt) ==
    IF st = NoTime
    THEN 0
    ELSE LET paused_extra == IF pa # NoTime THEN t - pa ELSE 0
             elapsed == (t - st) - (pt + paused_extra)
         IN  IF elapsed > 0 THEN elapsed ELSE 0

\* _elapsed_seconds()
Elapsed == ElapsedSeconds(now, started_monotonic, paused_at, paused_total)

\* queue_snapshot(): list(self.queue._queue)
queue_snapshot == queue

\* pending_queue_len(): self.queue.qsize()
pending_queue_len == Len(queue)

\* variant of Preview for C25: the snapshot is reported whole
PreviewAll(items) == items

\* queue_snapshot()[:10]
Preview(items) ==
    SubSeq(items, 1, IF Len(items) < PreviewLen THEN Len(items) ELSE PreviewLen)

\* status_dict(): the report is built from the session's fields and returned;
\* a track is shown in the preview by its label (title or query), which stands
\* for the track here
StatusDict ==
    /\ \E conn \in ConnectedOutcomes :
         ret' = Returned("status_dict",
                  [voice |-> IF voice # "none" /\ conn THEN <<vstate, volume>> ELSE <<>>,
                   current |-> current,
                   elapsed |-> IF current # NoTrack THEN Elapsed ELSE 0,
                   queue_len |-> pending_queue_len,
                   queue_preview |-> Preview(queue_snapshot),
                   history_len |-> Len(history)])
    /\ UNCHANGED <<queue, current, history, transport, tasks, player_task, track_done,
                   stop_pc, updater, disconnect_watch_task, made, errors, bg_tasks,
                   audience, enrichment, ui, connected_at, watchdog, sound, throttle>>
    /\ UNCHANGED clock

\* clear_queue(): get_nowait() until QueueEmpty; the number of tracks taken
ClearQueue ==
    /\ queue' = <<>>
    /\ ret' = Returned("clear", Len(queue))
    /\ UNCHANGED <<current, history, transport, tasks, player_task, track_done,
                   stop_pc, updater, disconnect_watch_task, made>>
    /\ UNCHANGED clock
    /\ UNCHANGED errors
    /\ UNCHANGED <<bg_tasks, audience, enrichment, ui, connected_at, watchdog, sound, throttle>>

\* shuffle_queue()
ShuffleQueue ==
    /\ \E items \in Shuffled(queue) : queue' = items
    /\ ret' = Returned("shuffle", Len(queue))
    /\ UNCHANGED <<current, history, transport, tasks, player_task, track_done,
                   stop_pc, updater, disconnect_watch_task, made>>
    /\ UNCHANGED clock
    /\ UNCHANGED errors
    /\ UNCHANGED <<bg_tasks, audience, enrichment, ui, connected_at, watchdog, sound, throttle>>

\* the positions the commands are tried with: every valid one and some invalid
Positions == -1 .. Len(queue) + 1

\* remove_from_queue(index_1_based)
RemoveFromQueue(p) ==
    /\ IF p <= 0
       THEN ret' = Raised("remove", "ValueError") /\ UNCHANGED queue
       ELSE IF p - 1 < 0 \/ p - 1 >= Len(queue)
       THEN ret' = Raised("remove", "IndexError") /\ UNCHANGED queue
       ELSE /\ queue' = ListPop(queue, p - 1)
            /\ ret' = Returned("remove", queue[p])
    /\ UNCHANGED <<current, history, transport, tasks, player_task, track_done,
                   stop_pc, updater, disconnect_watch_task, made>>
    /\ UNCHANGED clock
    /\ UNCHANGED errors
    /\ UNCHANGED <<bg_tasks, audience, enrichment, ui, connected_at, watchdog, sound, throttle>>

\* variant of SkipToQueueIndex for C8: the range check lets length + 1 through
SkipToQueueIndexLoose(p) ==
    /\ IF p <= 0
       THEN /\ ret' = Raised("skip_to", "ValueError")
            /\ UNCHANGED <<queue, transport, last_activity>>
       ELSE IF p - 1 < 0 \/ p - 1 > Len(queue)
       THEN /\ ret' = Raised("skip_to", "IndexError")
            /\ UNCHANGED <<queue, transport, last_activity>>
       ELSE /\ queue' = SliceFrom(queue, p - 1)
            /\ SkipBody
            /\ ret' = Returned("skip_to", Len(SliceTo(queue, p - 1)))
    /\ UNCHANGED <<current, history, tasks, player_task, track_done, stop_pc,
                   updater, disconnect_watch_task, made, now,
                   started_monotonic, paused_at, paused_total>>
    /\ UNCHANGED errors
    /\ UNCHANGED <<bg_tasks, audience, enrichment, ui, connected_at, watchdog, sound, throttle>>

\* skip_to_queue_index(index_1_based)
SkipToQueueIndex(p) ==
    /\ IF p <= 0
       THEN /\ ret' = Raised("skip_to", "ValueError")
            /\ UNCHANGED <<queue, transport, last_activity>>
       ELSE IF p - 1 < 0 \/ p - 1 >= Len(queue)
       THEN /\ ret' = Raised("skip_to", "IndexError")
            /\ UNCHANGED <<queue, transport, last_activity>>
       ELSE /\ queue' = SliceFrom(queue, p - 1)
            /\ SkipBody
            /\ ret' = Returned("skip_to", Len(SliceTo(queue, p - 1)))
    /\ UNCHANGED <<current, history, tasks, player_task, track_done, stop_pc,
                   updater, disconnect_watch_task, made, now,
                   started_monotonic, paused_at, paused_total>>
    /\ UNCHANGED errors
    /\ UNCHANGED <<bg_tasks, audience, enrichment, ui, connected_at, watchdog, sound, throttle>>

\* /play with a Spotify link: ensure_voice, then spawn_bg(enqueue_spotify_buffered())
PlaySpotify(b) ==
    /\ bg_tasks[b] = "none"
    /\ EnsureVoiceBody
    /\ bg_tasks' = IF ret'.err = "" THEN [bg_tasks EXCEPT ![b] = "start"] ELSE bg_tasks

\* enqueue_spotify_buffered up to its first followup.send: the generator (which
\* calls the Spotify client synchronously) yields a first track, which is
\* added, or yields nothing
BgFirst(b, n) ==
    /\ bg_tasks[b] = "start"
    /\ \/ /\ AddTrackBody(n)
          /\ bg_tasks' = [bg_tasks EXCEPT ![b] = "buffering"]
       \/ /\ bg_tasks' = [bg_tasks EXCEPT ![b] = "finishing"]
          /\ UNCHANGED <<queue, current, history, transport, tasks, player_task,
                         track_done, stop_pc, updater, disconnect_watch_task,
                         made, ret, errors, audience, enrichment, ui, connected_at, watchdog, sound,
                         throttle>>
          /\ UNCHANGED clock

\* enqueue_spotify_buffered from the first followup.send to the last: the rest
\* of the generator's tracks are added without the task suspending
BgRest(b, n) ==
    /\ bg_tasks[b] = "buffering"
    /\ bg_tasks' = [bg_tasks EXCEPT ![b] = "finishing"]
    /\ \E k \in 0..(n - made) :
         /\ made' = made + k
         /\ queue' = queue \o [j \in 1..k |-> made + j]
         /\ IF k = 0
            THEN UNCHANGED <<last_activity, tasks, player_task>>
            ELSE /\ last_activity' = now
                 /\ LET st == StartIfNeeded(WakeGetter(tasks), player_task)
                    IN  tasks' = st.tasks /\ player_task' = st.handle
    /\ UNCHANGED <<current, history, transport, track_done, stop_pc, updater,
                   disconnect_watch_task, ret, errors, now, started_monotonic,
                   paused_at, paused_total, audience, enrichment, ui, connected_at, watchdog, sound,
                   throttle>>

\* the buffered-enqueue task ends; its done-callback discards it from _bg_tasks
BgDone(b) ==
    /\ bg_tasks[b] = "finishing"
    /\ bg_tasks' = [bg_tasks EXCEPT ![b] = "none"]
    /\ UNCHANGED <<queue, current, history, transport, tasks, player_task,
                   track_done, stop_pc, updater, disconnect_watch_task,
                   made, ret, errors, audience, enrichment, ui, connected_at, watchdog, sound, throttle>>
    /\ UNCHANGED clock

\* variant of StopBegin for C14: voice.disconnect() is called without looking
\* at self.voice first
StopBeginUnguarded ==
    /\ stop_pc = "idle"
    /\ disconnect_watch_task' = FALSE
    /\ StopWatcher
    /\ bg_tasks' = NoBgTasks
    /\ queue' = <<>>
    /\ current' = NoTrack
    /\ StopUpdater
    /\ IF voice = "conn"
       THEN /\ voice' = "closing"
            /\ IF vstate # "idle" THEN VoiceStopped
               ELSE UNCHANGED <<vstate, vsource, after_calls>>
            /\ stop_pc' = "disconnecting"
            /\ UNCHANGED <<tasks, player_task, ret>>
       ELSE /\ ret' = Raised("stop", "AttributeError")
            /\ UNCHANGED <<voice, tasks, player_task, vstate, vsource, after_calls,
                           stop_pc>>
    /\ UNCHANGED <<history, track_done, made>>
    /\ UNCHANGED clock
    /\ UNCHANGED errors
    /\ UNCHANGED <<audience, enrichment, ui, connected_at, sound, throttle>>

\* task.cancel() on self._player_task, then self._player_task = None
CancelPlayer(tk, pt) == IF pt # NoTask THEN [tk EXCEPT ![pt] = "free"] ELSE tk

\* stop() up to `await self.voice.disconnect()`: watchdog cancelled, queue
\* cleared, current dropped, updater stopped.  disconnect() stops the audio
\* player before it suspends.  Without a connected voice client the rest of
\* stop() runs in the same step.
StopBegin ==
    /\ stop_pc = "idle"
    /\ disconnect_watch_task' = FALSE
    /\ StopWatcher
    /\ bg_tasks' = NoBgTasks
    /\ queue' = <<>>
    /\ current' = NoTrack
    /\ StopUpdater
    /\ IF voice = "conn"
       THEN /\ voice' = "closing"
            /\ IF vstate # "idle" THEN VoiceStopped
               ELSE UNCHANGED <<vstate, vsource, after_calls>>
            /\ stop_pc' = "disconnecting"
            /\ UNCHANGED <<tasks, player_task, ret>>
       ELSE /\ voice' = "none"
            /\ tasks' = CancelPlayer(tasks, player_task)
            /\ player_task' = NoTask
            /\ ret' = Returned("stop", 0)
            /\ UNCHANGED <<vstate, vsource, after_calls, stop_pc>>
    /\ UNCHANGED <<history, track_done, made>>
    /\ UNCHANGED clock
    /\ UNCHANGED errors
    /\ UNCHANGED <<audience, enrichment, ui, connected_at, sound, throttle>>

\* stop() after voice.disconnect() returned: voice dropped, consumer cancelled
StopFinish ==
    /\ stop_pc = "disconnecting"
    /\ stop_pc' = "idle"
    /\ voice' = "none"
    /\ tasks' = CancelPlayer(tasks, player_task)
    /\ player_task' = NoTask
    /\ ret' = Returned("stop", 0)
    /\ UNCHANGED <<queue, current, history, vstate, vsource, after_calls, track_done,
                   updater, disconnect_watch_task, made>>
    /\ UNCHANGED clock
    /\ UNCHANGED errors
    /\ UNCHANGED <<bg_tasks, audience, enrichment, ui, connected_at, watchdog, sound, throttle>>

\* ----------------------------------------------------------------- watcher
\* the watcher goes back to `await asyncio.sleep(5)`
WatchSleep == watch_pc' = "sleeping" /\ watch_wake' = now + WatchPeriod

\* condition B of the watcher
IdleCondition(t) ==
    /\ vstate \notin {"playing", "paused"}
    /\ queue = <<>>
    /\ t - last_activity >= IDLE_DISCONNECT_SECONDS

\* variant of WatchPoll for C34: a poll that sees members leaves _empty_since
\* as it is
WatchPollKeepsTimer ==
    /\ watch_pc = "sleeping"
    /\ now >= watch_wake
    /\ \E conn \in ConnectedOutcomes :
         IF voice = "none" \/ ~conn
         THEN /\ watch_pc' = "none"
              /\ watch_wake' = NoTime
              /\ disconnect_watch_task' = FALSE
              /\ UNCHANGED empty_since
         ELSE /\ UNCHANGED disconnect_watch_task
              /\ IF audience = 0 /\ empty_since # NoTime
                    /\ now - empty_since >= EMPTY_CHANNEL_DISCONNECT_SECONDS
                 THEN /\ watch_pc' = "empty_trip"
                      /\ UNCHANGED <<empty_since, watch_wake>>
                 ELSE /\ empty_since' = IF audience = 0 /\ empty_since = NoTime
                                        THEN now ELSE empty_since
                      /\ IF IdleCondition(now)
                         THEN watch_pc' = "idle_trip" /\ UNCHANGED watch_wake
                         ELSE WatchSleep
    /\ UNCHANGED <<queue, current, history, transport, tasks, player_task, track_done,
                   stop_pc, updater, made, ret, errors, bg_tasks, audience, enrichment, ui,
                   connected_at, sound, throttle>>
    /\ UNCHANGED clock

\* One poll of the watcher, from the end of asyncio.sleep(5) to its next
\* suspension: it returns without a connected voice client; a trip condition
\* takes it to the `await self.text_channel.send(...)` before stop(); otherwise
\* it sleeps again.
WatchPoll ==
    /\ watch_pc = "sleeping"
    /\ now >= watch_wake
    /\ \E conn \in ConnectedOutcomes :
         IF voice = "none" \/ ~conn
         THEN /\ watch_pc' = "none"
              /\ watch_wake' = NoTime
              /\ disconnect_watch_task' = FALSE
              /\ UNCHANGED empty_since
         ELSE /\ UNCHANGED disconnect_watch_task
              /\ IF audience = 0 /\ empty_since # NoTime
                    /\ now - empty_since >= EMPTY_CHANNEL_DISCONNECT_SECONDS
                 THEN /\ watch_pc' = "empty_trip"
                      /\ UNCHANGED <<empty_since, watch_wake>>
                 ELSE /\ empty_since' = IF audience = 0
                                        THEN (IF empty_since = NoTime THEN now ELSE empty_since)
                                        ELSE NoTime
                      /\ IF IdleCondition(now)
                         THEN watch_pc' = "idle_trip" /\ UNCHANGED watch_wake
                         ELSE WatchSleep
    /\ UNCHANGED <<queue, current, history, transport, tasks, player_task, track_done,
                   stop_pc, updater, made, ret, errors, bg_tasks, audience, enrichment, ui,
                   connected_at, sound, throttle>>
    /\ UNCHANGED clock

\* variant of WatchStop for C16: the watcher goes on polling after its stop()
WatchStopKeepsPolling ==
    /\ watch_pc \in {"empty_trip", "idle_trip"}
    /\ WatchSleep
    /\ UNCHANGED empty_since
    /\ disconnect_watch_task' = TRUE
    /\ bg_tasks' = NoBgTasks
    /\ queue' = <<>>
    /\ current' = NoTrack
    /\ StopUpdater
    /\ voice' = "none"
    /\ tasks' = CancelPlayer(tasks, player_task)
    /\ player_task' = NoTask
    /\ ret' = Returned("stop", 0)
    /\ UNCHANGED <<vstate, vsource, after_calls>>
    /\ UNCHANGED <<history, track_done, stop_pc, made, errors, audience, enrichment, ui, connected_at,
                   sound, throttle>>
    /\ UNCHANGED clock

\* The text_channel.send of a tripped watcher returned and the watcher calls
\* stop().  stop() cancels the watcher, which is the task running it: the
\* cancellation is delivered at the first await that suspends.  With a
\* connected client that is voice.disconnect(), entered after the audio player
\* was stopped: stop() ends there with CancelledError, self.voice and
\* self._player_task untouched.  Without one, stop() runs to its end.
WatchStop ==
    /\ watch_pc \in {"empty_trip", "idle_trip"}
    /\ StopWatcher
    /\ disconnect_watch_task' = FALSE
    /\ bg_tasks' = NoBgTasks
    /\ queue' = <<>>
    /\ current' = NoTrack
    /\ StopUpdater
    /\ \E conn \in ConnectedOutcomes :
         IF voice # "none" /\ conn
         THEN /\ voice' = "lost"
              /\ IF vstate # "idle" THEN VoiceStopped
                 ELSE UNCHANGED <<vstate, vsource, after_calls>>
              /\ ret' = Raised("stop", "CancelledError")
              /\ UNCHANGED <<tasks, player_task>>
         ELSE /\ voice' = "none"
              /\ tasks' = CancelPlayer(tasks, player_task)
              /\ player_task' = NoTask
              /\ ret' = Returned("stop", 0)
              /\ UNCHANGED <<vstate, vsource, after_calls>>
    /\ UNCHANGED <<history, track_done, stop_pc, made, errors, audience, enrichment, ui, connected_at,
                   sound, throttle>>
    /\ UNCHANGED clock

\* ------------------------------------------------------- refresh throttle
\* The interval is kept as an exact fraction [n, d] in lowest terms.
RECURSIVE GCD(_, _)
GCD(a, b) == IF b = 0 THEN a ELSE GCD(b, a % b)

Reduce(r) == LET g == GCD(r.n, r.d) IN [n |-> r.n \div g, d |-> r.d \div g]

\* r * (p / q)
Times(r, p, q) == Reduce([n |-> r.n * p, d |-> r.d * q])

\* a < b
Less(a, b) == a.n * b.d < b.n * a.d

\* variant of Shrink for C20: the interval is multiplied without the floor
ShrinkNoFloor(i) == Times(i, 9, 10)

\* max(1.0, self._np_interval * 0.9)
Shrink(i) == LET x == Times(i, 9, 10) IN IF Less(x, One) THEN One ELSE x

\* variant of Grow for C21: the interval is multiplied without the cap
GrowNoCap(i) == Times(i, 3, 2)

\* min(5.0, self._np_interval * 1.5)
Grow(i) == LET x == Times(i, 3, 2) IN IF Less(Five, x) THEN Five ELSE x

\* the fractions followed: both adjustments of i have a denominator within the bound
Followed(i) ==
    /\ Times(i, 9, 10).d <= ThrottleMaxDen
    /\ Times(i, 3, 2).d <= ThrottleMaxDen

\* `(now - self._last_np_edit) < self._np_interval`, with `now` read as t
TooSoon(t) == Less([n |-> t - last_np_edit, d |-> 1], np_interval)

\* how an awaited Message.edit ends: it returns; it raises the HTTPException
\* of a rate limit; it raises NotFound or Forbidden, subclasses of HTTPException,
\* when the message or the channel is gone; it raises anything else
EditOutcomes == {"ok", "rate_limited", "not_found", "error"}

\* lines 810-816 after the await, for an edit whose caller read `now` as t
Edited(t, outcome) ==
    /\ last_np_edit' = IF outcome = "ok" THEN t ELSE last_np_edit
    /\ np_interval' = CASE outcome = "ok" -> Shrink(np_interval)
                        [] outcome \in {"rate_limited", "not_found"} -> Grow(np_interval)
                        [] OTHER -> np_interval

\* variant of UpdaterPoll for C23: the updater edits without looking at the interval
UpdaterPollUnthrottled ==
    /\ np_update_task
    /\ np_edit = NoTime
    /\ IF voice = "none" \/ current = NoTrack \/ vstate \notin {"playing", "paused"}
       THEN np_update_task' = FALSE /\ UNCHANGED np_edit
       ELSE /\ UNCHANGED np_update_task
            /\ np_edit' = IF panel_message THEN now ELSE NoTime
    /\ UNCHANGED <<queue, current, history, transport, tasks, player_task, track_done,
                   stop_pc, disconnect_watch_task, made, ret, errors, bg_tasks,
                   audience, enrichment, ui, connected_at, watchdog, sound, throttle>>
    /\ UNCHANGED clock

\* One round of the updater loop, from the end of asyncio.sleep(0.5) to its
\* next suspension: it returns without a voice client, a current track or a
\* busy transport; update_ui_message() does nothing without a panel or inside
\* the interval; otherwise the edit is awaited.  The legacy message of
\* /nowplaying, which update_nowplaying_message edits with the same arithmetic
\* when there is no panel, is not followed.
UpdaterPoll ==
    /\ np_update_task
    /\ np_edit = NoTime
    /\ IF voice = "none" \/ current = NoTrack \/ vstate \notin {"playing", "paused"}
       THEN np_update_task' = FALSE /\ UNCHANGED np_edit
       ELSE /\ UNCHANGED np_update_task
            /\ np_edit' = IF panel_message /\ ~TooSoon(now) THEN now ELSE NoTime
    /\ UNCHANGED <<queue, current, history, transport, tasks, player_task, track_done,
                   stop_pc, disconnect_watch_task, made, ret, errors, bg_tasks,
                   audience, enrichment, ui, connected_at, watchdog, sound, throttle>>
    /\ UNCHANGED clock

\* the updater's edit ends
UpdaterEdited(outcome) ==
    /\ np_update_task
    /\ np_edit # NoTime
    /\ Followed(np_interval)
    /\ Edited(np_edit, outcome)
    /\ np_edit' = NoTime
    /\ UNCHANGED np_update_task
    /\ UNCHANGED <<queue, current, history, transport, tasks, player_task, track_done,
                   stop_pc, disconnect_watch_task, made, ret, errors, bg_tasks,
                   audience, enrichment, ui, connected_at, watchdog, sound>>
    /\ UNCHANGED clock

\* variant of ForcedUpdate for C22: the forced call also honours the interval
ForcedUpdateThrottled(e) ==
    /\ forced_edits[e] = NoTime
    /\ panel_message
    /\ ~TooSoon(now)
    /\ forced_edits' = [forced_edits EXCEPT ![e] = now]
    /\ UNCHANGED <<queue, current, history, transport, tasks, player_task, track_done,
                   stop_pc, updater, disconnect_watch_task, made, ret, errors, bg_tasks,
                   audience, enrichment, panel_message, connected_at, watchdog, sound, throttle>>
    /\ UNCHANGED clock

\* update_ui_message(force=True) of a panel button, or
\* update_panel_message(force=True) of stop() and /panel, with a panel message:
\* the edit is awaited whatever the interval
ForcedUpdate(e) ==
    /\ forced_edits[e] = NoTime
    /\ panel_message
    /\ forced_edits' = [forced_edits EXCEPT ![e] = now]
    /\ UNCHANGED <<queue, current, history, transport, tasks, player_task, track_done,
                   stop_pc, updater, disconnect_watch_task, made, ret, errors, bg_tasks,
                   audience, enrichment, panel_message, connected_at, watchdog, sound, throttle>>
    /\ UNCHANGED clock

\* a forced edit ends
ForcedEdited(e, outcome) ==
    /\ forced_edits[e] # NoTime
    /\ Followed(np_interval)
    /\ Edited(forced_edits[e], outcome)
    /\ forced_edits' = [forced_edits EXCEPT ![e] = NoTime]
    /\ UNCHANGED <<queue, current, history, transport, tasks, player_task, track_done,
                   stop_pc, updater, disconnect_watch_task, made, ret, errors, bg_tasks,
                   audience, enrichment, panel_message, connected_at, watchdog, sound>>
    /\ UNCHANGED clock

\* ------------------------------------------------ enrichment of one track
\* A command handler constructs a Track
NewTrack ==
    /\ track_fields' \in TrackInputs
    /\ resolver_info' = NoInfo
    /\ UNCHANGED <<queue, current, history, transport, tasks, player_task, track_done,
                   stop_pc, updater, disconnect_watch_task, made, ret, errors, bg_tasks,
                   audience, ui, connected_at, watchdog, sound, throttle>>
    /\ UNCHANGED clock

\* ytdlp_resolve(self.current.query) returns an info dict
ResolverReturns ==
    /\ resolver_info = NoInfo
    /\ resolver_info' \in InfoInputs
    /\ UNCHANGED track_fields
    /\ UNCHANGED <<queue, current, history, transport, tasks, player_task, track_done,
                   stop_pc, updater, disconnect_watch_task, made, ret, errors, bg_tasks,
                   audience, ui, connected_at, watchdog, sound, throttle>>
    /\ UNCHANGED clock

\* lines 883-887 of the consumer loop
EnrichCurrent ==
    /\ resolver_info # NoInfo
    /\ track_fields' = Enriched(track_fields, resolver_info)
    /\ UNCHANGED resolver_info
    /\ UNCHANGED <<queue, current, history, transport, tasks, player_task, track_done,
                   stop_pc, updater, disconnect_watch_task, made, ret, errors, bg_tasks,
                   audience, ui, connected_at, watchdog, sound, throttle>>
    /\ UNCHANGED clock

\* ------------------------------------------------------------- environment
\* a member leaves the voice channel
MemberLeaves ==
    /\ audience > 0
    /\ audience' = audience - 1
    /\ UNCHANGED <<queue, current, history, transport, tasks, player_task, track_done,
                   stop_pc, updater, disconnect_watch_task, made, ret, errors,
                   bg_tasks, ui, enrichment, connected_at, watchdog, sound, throttle>>
    /\ UNCHANGED clock

\* a member joins the voice channel
MemberJoins ==
    /\ audience < MaxAudience
    /\ audience' = audience + 1
    /\ UNCHANGED <<queue, current, history, transport, tasks, player_task, track_done,
                   stop_pc, updater, disconnect_watch_task, made, ret, errors,
                   bg_tasks, ui, enrichment, connected_at, watchdog, sound, throttle>>
    /\ UNCHANGED clock

\* the bot is disconnected from outside (moved out, kicked, connection lost):
\* the client the session refers to is no longer connected and its audio player
\* has ended
TransportLost ==
    /\ voice = "conn"
    /\ voice' = "lost"
    /\ IF vstate # "idle" THEN VoiceStopped ELSE UNCHANGED <<vstate, vsource, after_calls>>
    /\ UNCHANGED <<queue, current, history, tasks, player_task, track_done,
                   stop_pc, updater, disconnect_watch_task, made, ret, errors,
                   bg_tasks, audience, enrichment, ui, connected_at, watchdog, sound, throttle>>
    /\ UNCHANGED clock

\* time.monotonic() moves on by d seconds, up to limit
Advance(d, limit) ==
    /\ now + d <= limit
    /\ now' = now + d
    /\ UNCHANGED <<queue, current, history, transport, tasks, player_task, track_done,
                   stop_pc, updater, disconnect_watch_task, made, ret, errors,
                   last_activity, started_monotonic, paused_at, paused_total>>
    /\ UNCHANGED <<bg_tasks, audience, enrichment, ui, connected_at, watchdog, sound, throttle>>

\* -------------------------------------------------------------------- time
\* time.monotonic() moves on
Tick ==
    /\ now < MaxTime
    /\ now' = now + 1
    /\ UNCHANGED <<queue, current, history, transport, tasks, player_task, track_done,
                   stop_pc, updater, disconnect_watch_task, made, ret, errors,
                   last_activity, started_monotonic, paused_at, paused_total>>
    /\ UNCHANGED <<bg_tasks, audience, enrichment, ui, connected_at, watchdog, sound, throttle>>

\* ------------------------------------------------------------ specification
Consumer ==
    \E i \in Slots :
        \/ ConsumerGet(i)
        \/ ResolveFail(i)
        \/ StartFail(i)
        \/ ResolveOk(i)
        \/ PanelPosted(i)
        \/ TrackDone(i)

Positional == \E p \in Positions : RemoveFromQueue(p) \/ SkipToQueueIndex(p)

Next ==
    \/ Consumer
    \/ NaturalEnd
    \/ AfterPlay
    \/ EnsureVoice
    \/ AddTrack(MaxTracks)
    \/ AddTrackNext(MaxTracks)
    \/ Skip
    \/ Previous
    \/ Pause
    \/ Resume
    \/ Positional
    \/ StopBegin
    \/ StopFinish

\* The session under every interleaving of its commands, its consumer task and
\* its transport.  No guard of these operations reads the clock, so the clock is
\* not advanced here; the timed scenarios add Tick.
Spec == Init /\ [][Next]_vars

\* ------------------------------------------------- end-to-end FIFO scenario
\* A session whose transport is connected gets E2ETracks tracks through
\* add_track (each /play calls ensure_voice first); every resolution succeeds,
\* every started track ends and its completion callback is delivered.
E2EConnect == EnsureVoice

E2EAdd == voice = "conn" /\ AddTrack(E2ETracks)

E2EConsumer ==
    \E i \in Slots : ConsumerGet(i) \/ ResolveOk(i) \/ PanelPosted(i) \/ TrackDone(i)

NextE2E == E2EConnect \/ E2EAdd \/ E2EConsumer \/ NaturalEnd \/ AfterPlay \/ Tick

\* asyncio runs every runnable task; the scenario assumes the enqueues happen
\* and every started track signals completion
SpecE2E ==
    /\ Init
    /\ [][NextE2E]_vars
    /\ WF_vars(E2EConnect)
    /\ WF_vars(E2EAdd)
    /\ WF_vars(E2EConsumer)
    /\ WF_vars(NaturalEnd)
    /\ WF_vars(AfterPlay)

\* ------------------------------------------------------- session scenario
\* The operations that start, advance and tear down playback, three tracks:
\* add_track, add_track_next, skip, previous, stop, ensure_voice, the consumer
\* loop and the transport.
NextSession ==
    \/ Consumer
    \/ NaturalEnd
    \/ AfterPlay
    \/ EnsureVoice
    \/ AddTrack(SessionTracks)
    \/ AddTrackNext(SessionTracks)
    \/ Skip
    \/ Previous
    \/ StopBegin
    \/ StopFinish

SpecSession == Init /\ [][NextSession]_vars

\* ------------------------------------------------------- skip_to scenario
\* /play and /skipto against a running session: tracks are appended, the
\* consumer and the transport run, skip_to is tried with every position.
SkipToConnect == EnsureVoice

SkipToAdd == voice = "conn" /\ AddTrack(SkipToTracks)

SkipToCommand == \E p \in Positions : SkipToQueueIndex(p)

NextSkipTo ==
    \/ SkipToConnect
    \/ SkipToAdd
    \/ Consumer
    \/ NaturalEnd
    \/ AfterPlay
    \/ SkipToCommand

SpecSkipTo == Init /\ [][NextSkipTo]_vars

\* ---------------------------------------------------- queue-only scenario
\* The queue operations called back to back: add_track creates the consumer
\* task, but no call suspends, so the task is never scheduled and pops nothing.
NextQueue ==
    \/ AddTrack(QueueTracks)
    \/ AddTrackNext(QueueTracks)
    \/ Positional

SpecQueue == Init /\ [][NextQueue]_vars

\* ------------------------------------------------------- shuffle scenario
\* /shuffle against a running session: tracks are appended or put at the head,
\* the consumer plays them, and the pending queue is shuffled at any moment.
ShuffleConnect == EnsureVoice

ShuffleAdd == voice = "conn" /\ (AddTrack(ShuffleTracks) \/ AddTrackNext(ShuffleTracks))

NextShuffle ==
    \/ ShuffleConnect
    \/ ShuffleAdd
    \/ E2EConsumer
    \/ NaturalEnd
    \/ AfterPlay
    \/ ShuffleQueue

SpecShuffle == Init /\ [][NextShuffle]_vars

\* -------------------------------------------------- long-session scenario
\* A listener keeps up to HistoryAhead tracks pending, every track plays to its
\* end, and /previous is used now and then: more tracks finish than the history
\* can hold.
HistoryConnect == EnsureVoice

HistoryAdd == voice = "conn" /\ Len(queue) < HistoryAhead /\ AddTrack(HistoryTracks)

NextHistory ==
    \/ HistoryConnect
    \/ HistoryAdd
    \/ E2EConsumer
    \/ NaturalEnd
    \/ AfterPlay
    \/ Previous

SpecHistory == Init /\ [][NextHistory]_vars

\* ------------------------------------------------------ teardown scenario
\* /stop racing with /play: plain enqueues, Spotify links buffered by a
\* background task, the consumer and the transport.
StopSpotify == \E b \in BgSlots : PlaySpotify(b)

StopBuffered ==
    \E b \in BgSlots : BgFirst(b, StopTracks) \/ BgRest(b, StopTracks) \/ BgDone(b)

NextStop ==
    \/ EnsureVoice
    \/ AddTrack(StopTracks)
    \/ StopSpotify
    \/ StopBuffered
    \/ Consumer
    \/ NaturalEnd
    \/ AfterPlay
    \/ StopBegin
    \/ StopFinish

SpecStop == Init /\ [][NextStop]_vars

\* ---------------------------------------------------- empty-room scenario
\* A session without tracks: members come and go, the bot can be disconnected
\* from outside and is reconnected by a /play of a member, the watcher polls.
\* Time is followed second by second or in poll periods.
EmptyRoomTime == Advance(1, EmptyMaxTime) \/ Advance(WatchPeriod, EmptyMaxTime)

EmptyRoomConnect == CanConnect /\ EnsureVoice

NextEmptyRoom ==
    \/ EmptyRoomConnect
    \/ MemberLeaves
    \/ MemberJoins
    \/ TransportLost
    \/ EmptyRoomTime
    \/ WatchPoll
    \/ WatchStop

SpecEmptyRoom == Init /\ [][NextEmptyRoom]_vars

\* ---------------------------------------------------------- idle scenario
\* A session that plays tracks while minutes pass: time moves in steps of
\* IdleStep seconds or by the idle threshold at once.
IdleTime ==
    Advance(IdleStep, IdleMaxTime) \/ Advance(IDLE_DISCONNECT_SECONDS, IdleMaxTime)

IdleConnect == CanConnect /\ EnsureVoice

IdleAdd == voice = "conn" /\ AddTrack(IdleTracks)

NextIdle ==
    \/ IdleConnect
    \/ IdleAdd
    \/ E2EConsumer
    \/ NaturalEnd
    \/ AfterPlay
    \/ MemberLeaves
    \/ MemberJoins
    \/ IdleTime
    \/ WatchPoll
    \/ WatchStop

SpecIdle == Init /\ [][NextIdle]_vars

\* --------------------------------------------------------- pause scenario
\* pause() and resume() issued at any moment of a session that plays tracks
\* while time passes
PauseConnect == CanConnect /\ EnsureVoice

PauseAdd == voice = "conn" /\ AddTrack(PauseTracks)

PauseTime == Advance(1, PauseMaxTime)

NextPause ==
    \/ PauseConnect
    \/ PauseAdd
    \/ E2EConsumer
    \/ NaturalEnd
    \/ AfterPlay
    \/ Pause
    \/ Resume
    \/ PauseTime

SpecPause == Init /\ [][NextPause]_vars

\* -------------------------------------------------------- volume scenario
\* /volume and the Vol+ / Vol- buttons issued at any moment of a session that
\* plays tracks; the requested volumes include values outside 0..2.0
VolumeInputs == {-50, 0, 5, 195, 200, 250}

VolumeConnect == CanConnect /\ EnsureVoice

VolumeAdd == voice = "conn" /\ AddTrack(VolumeTracks)

VolumeSet == \E v \in VolumeInputs : SetVolume(v)

NextVolume ==
    \/ VolumeConnect
    \/ VolumeAdd
    \/ E2EConsumer
    \/ NaturalEnd
    \/ AfterPlay
    \/ VolumeSet
    \/ VolumeUp
    \/ VolumeDown

SpecVolume == Init /\ [][NextVolume]_vars

\* ------------------------------------------------------ throttle scenario
\* A session that plays tracks while the updater and the panel buttons edit
\* the panel message, each edit succeeding, being rate-limited or failing.
ThrottleConnect == CanConnect /\ EnsureVoice

ThrottleAdd == voice = "conn" /\ AddTrack(ThrottleTracks)

ThrottleTime == Advance(1, ThrottleMaxTime)

UpdaterEdit == \E outcome \in EditOutcomes : UpdaterEdited(outcome)

ForcedEdit == \E e \in EditSlots : ForcedUpdate(e)

ForcedEditEnds == \E e \in EditSlots, outcome \in EditOutcomes : ForcedEdited(e, outcome)

NextThrottle ==
    \/ ThrottleConnect
    \/ ThrottleAdd
    \/ E2EConsumer
    \/ NaturalEnd
    \/ AfterPlay
    \/ UpdaterPoll
    \/ UpdaterEdit
    \/ ForcedEdit
    \/ ForcedEditEnds
    \/ ThrottleTime

SpecThrottle == Init /\ [][NextThrottle]_vars

\* ------------------------------------------------- elapsed-time scenario
\* Tracks are played, paused, resumed and skipped while time passes;
\* resolutions and transport starts may fail.
ElapsedConnect == CanConnect /\ EnsureVoice

ElapsedAdd == voice = "conn" /\ AddTrack(ElapsedTracks)

ElapsedTime == Advance(1, ElapsedMaxTime)

NextElapsed ==
    \/ ElapsedConnect
    \/ ElapsedAdd
    \/ Consumer
    \/ NaturalEnd
    \/ AfterPlay
    \/ Skip
    \/ Pause
    \/ Resume
    \/ ElapsedTime

SpecElapsed == Init /\ [][NextElapsed]_vars

\* --------------------------------------------------------- status scenario
\* The status endpoint is read at any moment of a session whose queue grows
\* beyond the length of the preview.
StatusConnect == CanConnect /\ EnsureVoice

StatusAdd == voice = "conn" /\ AddTrack(StatusTracks)

NextStatus ==
    \/ StatusConnect
    \/ StatusAdd
    \/ E2EConsumer
    \/ NaturalEnd
    \/ AfterPlay
    \/ StatusDict

SpecStatus == Init /\ [][NextStatus]_vars

\* -------------------------------------------------- head-insert scenario
\* Tracks are appended, put at the head of the queue or brought back by
\* previous() while the consumer and the transport run.  asyncio runs every
\* runnable task and every started track signals completion; no enqueue is
\* bound to happen.
HeadConnect == CanConnect /\ EnsureVoice

HeadAdd == voice = "conn" /\ (AddTrack(HeadTracks) \/ AddTrackNext(HeadTracks))

HeadPrevious == voice = "conn" /\ Previous

NextHeadInsert ==
    \/ HeadConnect
    \/ HeadAdd
    \/ HeadPrevious
    \/ E2EConsumer
    \/ NaturalEnd
    \/ AfterPlay

SpecHeadInsert ==
    /\ Init
    /\ [][NextHeadInsert]_vars
    /\ WF_vars(E2EConsumer)
    /\ WF_vars(NaturalEnd)
    /\ WF_vars(AfterPlay)

\* ----------------------------------------------------- enrichment scenario
\* Track objects with every combination of known and unknown fields are
\* resolved and enriched.
NextEnrich == NewTrack \/ ResolverReturns \/ EnrichCurrent

SpecEnrich == Init /\ [][NextEnrich]_vars

\* ------------------------------------------------------- activity scenario
\* Every command of a connected session, with the clock moving between them.
ActivityConnect == CanConnect /\ EnsureVoice

ActivityAdd == voice = "conn" /\ AddTrack(ActivityTracks)

ActivityAddNext == voice = "conn" /\ AddTrackNext(ActivityTracks)

ActivityRemove == \E p \in 1 .. Len(queue) : RemoveFromQueue(p)

ActivitySkipTo == \E p \in 1 .. Len(queue) : SkipToQueueIndex(p)

ActivityVolume == \E v \in {50, 100} : SetVolume(v)

ActivityTime == Advance(1, ActivityMaxTime)

NextActivity ==
    \/ ActivityConnect
    \/ ActivityAdd
    \/ ActivityAddNext
    \/ ActivityRemove
    \/ ActivitySkipTo
    \/ ShuffleQueue
    \/ ClearQueue
    \/ Skip
    \/ Previous
    \/ Pause
    \/ Resume
    \/ ActivityVolume
    \/ E2EConsumer
    \/ NaturalEnd
    \/ AfterPlay
    \/ ActivityTime

SpecActivity == Init /\ [][NextActivity]_vars

\* ------------------------------------------------------------------ claims
InFlightLoops == {i \in Slots : tasks[i] \in InFlightPcs}

\* the tracks being resolved by a loop or played by the transport
InFlight ==
    ((IF InFlightLoops # {} THEN {current} ELSE {})
        \cup (IF vstate # "idle" THEN {vsource} ELSE {})) \ {NoTrack}

E2EOrder ==
    /\ \A k \in 1..Len(history) : history[k] = k
    /\ InFlightLoops # {} => current = Len(history) + 1
    /\ vstate # "idle" => vsource = current
    /\ Cardinality(LiveTasks) <= 1
    /\ Cardinality(InFlight) <= 1

E2EFinal ==
    /\ history = [k \in 1..E2ETracks |-> k]
    /\ queue = <<>>
    /\ player_task # NoTask
    /\ tasks[player_task] = "blocked"
    /\ vstate = "idle"

\* C1: tracks 1..E2ETracks enqueued in that order into a connected session are
\* made current one at a time in that order, and the run ends with the consumer
\* blocked on the empty queue and the history holding them oldest first.
C1_EndToEndFifo == [](E2EOrder) /\ <>[](E2EFinal)

C1_Witness == E2EFinal /\ made = E2ETracks /\ after_calls = 0 /\ errors = 0

\* C2: in every reachable state at most one consumer loop task is live and at
\* most one track is in flight (being resolved by the loop or played by the
\* transport).
C2_OneLoopOneTrack ==
    /\ Cardinality(LiveTasks) <= 1
    /\ Cardinality(InFlight) <= 1

\* a step of the loop's except-branch
FailureStep(i) == ResolveFail(i) \/ StartFail(i)

\* C3: a resolution or transport-start failure does not end the consumer loop:
\* the failure is logged, the failed track is neither kept nor re-queued, and
\* the loop goes into its next iteration, where it blocks on an empty queue or
\* pops the head; with the transport connected the head becomes current.
C3_FailureKeepsLoop ==
    [][\A i \in Slots : FailureStep(i) =>
          /\ history' = history
          /\ queue = <<>> => tasks'[i] = "blocked" /\ queue' = <<>>
          /\ queue # <<>> => queue' = Tail(queue)
          /\ (queue # <<>> /\ voice = "conn") =>
                 tasks'[i] = "resolving" /\ current' = Head(queue)
          /\ (queue = <<>> \/ voice = "conn") => tasks'[i] \in LivePcs]_vars

C3_Witness ==
    /\ errors = 1
    /\ made = 2
    /\ history = <<>>
    /\ current = 2
    /\ queue = <<>>
    /\ voice = "conn"
    /\ \E i \in Slots : tasks[i] = "resolving"
    /\ ret = Returned("add_track", 0)

\* the transport is playing the current track
PlayingCurrent ==
    /\ voice = "conn"
    /\ vstate = "playing"
    /\ current # NoTrack
    /\ vsource = current

\* the scenario of C4 right after skip_to(2): A = 1 current, X = 2 discarded,
\* Y = 3 and Z = 4 pending
SkipToDone ==
    /\ ret = Returned("skip_to", 1)
    /\ current = 1
    /\ history = <<>>
    /\ queue = <<3, 4>>

\* C4: skip_to(p) with a valid p while the current track is playing returns
\* p - 1, leaves exactly the tracks from position p on in the queue, and stops
\* the transport, whose completion callback is then owed; a new current track is
\* always the head of the queue, the rest staying pending; and after
\* skip_to(2) on [2, 3, 4] with 1 playing, track 2 never becomes current.
C4_SkipToAdvances ==
    /\ [][\A p \in Positions :
            (SkipToQueueIndex(p) /\ 1 <= p /\ p <= Len(queue) /\ PlayingCurrent) =>
                /\ ret' = Returned("skip_to", p - 1)
                /\ queue' = [k \in 1..(Len(queue) - p + 1) |-> queue[k + p - 1]]
                /\ vstate' = "idle"
                /\ after_calls' = after_calls + 1
                /\ current' = current
                /\ history' = history]_vars
    /\ [][(current' # current /\ current' # NoTrack) =>
            /\ queue # <<>>
            /\ current' = queue[1]
            /\ queue' = Tail(queue)]_vars
    /\ [](SkipToDone => [](current # 2 /\ \A k \in 1..Len(history) : history[k] # 2))

C4_Witness ==
    /\ ret = Returned("skip_to", 1)
    /\ history = <<1>>
    /\ current = 3
    /\ queue = <<4>>
    /\ vstate = "playing"
    /\ vsource = 3
    /\ errors = 0

\* the current track has been forced to end: the transport is not playing it
\* and its completion is signalled or owed
ForcedEnd == vstate = "idle" /\ (after_calls > 0 \/ track_done = "set")

\* C5: skip() called while a track is current (the loop is resolving it, or it
\* is playing or paused) forces that track to end.
C5_SkipEndsCurrent ==
    [][(Skip /\ current # NoTrack /\ InFlightLoops # {}) => ForcedEnd']_vars

\* C6: previous() with a non-empty history returns true, pops the newest
\* history entry P, leaves the queue as [P, C, ...old queue] (C the current
\* track, if any), and forces the current track to end.
C6_PreviousRequeues ==
    [][(Previous /\ history # <<>>) =>
          /\ ret' = Returned("previous", 1)
          /\ history' = SubSeq(history, 1, Len(history) - 1)
          /\ queue' = <<history[Len(history)]>>
                          \o (IF current # NoTrack THEN <<current>> ELSE <<>>)
                          \o queue
          /\ (current # NoTrack /\ InFlightLoops # {}) => ForcedEnd']_vars

\* C7: previous() on an empty history returns false and changes neither the
\* queue, the current track, the history nor the transport.
C7_PreviousEmpty ==
    [][(Previous /\ history = <<>>) =>
          /\ ret' = Returned("previous", 0)
          /\ UNCHANGED <<queue, current, history, transport>>]_vars

C7_Witness ==
    /\ ret = Returned("previous", 0)
    /\ history = <<>>
    /\ vstate = "playing"
    /\ vsource = 1
    /\ current = 1
    /\ queue = <<2>>

\* a position outside 1..length
OutOfRange(p) == p <= 0 \/ p > Len(queue)

\* C8: remove(p) and skip_to(p) with p <= 0 or p > length raise an error and
\* change neither the queue, the current track nor the transport.
C8_OutOfRangeFails ==
    [][\A p \in Positions : OutOfRange(p) =>
          /\ RemoveFromQueue(p) =>
                /\ ret'.op = "remove"
                /\ ret'.err \in {"ValueError", "IndexError"}
                /\ UNCHANGED <<queue, current, history, transport>>
          /\ SkipToQueueIndex(p) =>
                /\ ret'.op = "skip_to"
                /\ ret'.err \in {"ValueError", "IndexError"}
                /\ UNCHANGED <<queue, current, history, transport>>]_vars

C8_Witness ==
    /\ ret = Raised("skip_to", "IndexError")
    /\ vstate = "playing"
    /\ vsource = 1
    /\ current = 1
    /\ queue = <<2>>
    /\ after_calls = 0

\* C9: remove(p) with 1 <= p <= length returns the track at position p; the
\* tracks before p stay where they are, the tracks after p move up by one, and
\* the length drops by one.
C9_RemoveAtPosition ==
    [][\A p \in Positions :
          (RemoveFromQueue(p) /\ 1 <= p /\ p <= Len(queue)) =>
              /\ ret' = Returned("remove", queue[p])
              /\ Len(queue') = Len(queue) - 1
              /\ \A k \in 1..(p - 1) : queue'[k] = queue[k]
              /\ \A k \in p..(Len(queue) - 1) : queue'[k] = queue[k + 1]]_vars

C9_Witness ==
    /\ ret = Returned("remove", 2)
    /\ made = QueueTracks
    /\ Len(queue) = QueueTracks - 1
    /\ queue[1] = 1
    /\ queue[2] = 3

\* the reference list: append to tail, insert at head, delete at index, drop
\* prefix
RefAppend(l, x) == [k \in 1..(Len(l) + 1) |-> IF k <= Len(l) THEN l[k] ELSE x]
RefInsertHead(l, x) == [k \in 1..(Len(l) + 1) |-> IF k = 1 THEN x ELSE l[k - 1]]
RefDelete(l, p) == [k \in 1..(Len(l) - 1) |-> IF k < p THEN l[k] ELSE l[k + 1]]
RefDropPrefix(l, n) == [k \in 1..(Len(l) - n) |-> l[k + n]]

\* C10: with no consumer pop in between, every add_track, add_track_next,
\* remove and skip_to takes queue_snapshot() to what the same operation makes of
\* the reference list, and pending_queue_len() goes up by one per insert and
\* down by the number of tracks removed or discarded; a failed operation
\* changes neither.
C10_QueueRefinesList ==
    [][/\ AddTrack(QueueTracks) =>
            /\ queue_snapshot' = RefAppend(queue_snapshot, made + 1)
            /\ pending_queue_len' = pending_queue_len + 1
       /\ AddTrackNext(QueueTracks) =>
            /\ queue_snapshot' = RefInsertHead(queue_snapshot, made + 1)
            /\ pending_queue_len' = pending_queue_len + 1
       /\ \A p \in Positions :
            /\ RemoveFromQueue(p) =>
                 IF ret'.err = ""
                 THEN /\ queue_snapshot' = RefDelete(queue_snapshot, p)
                      /\ pending_queue_len' = pending_queue_len - 1
                 ELSE /\ queue_snapshot' = queue_snapshot
                      /\ pending_queue_len' = pending_queue_len
            /\ SkipToQueueIndex(p) =>
                 IF ret'.err = ""
                 THEN /\ queue_snapshot' = RefDropPrefix(queue_snapshot, p - 1)
                      /\ pending_queue_len' = pending_queue_len - ret'.val
                 ELSE /\ queue_snapshot' = queue_snapshot
                      /\ pending_queue_len' = pending_queue_len]_vars

C10_Witness ==
    /\ ret = Returned("skip_to", 1)
    /\ made = QueueTracks
    /\ queue_snapshot = <<1, 4>>
    /\ pending_queue_len = 2
    /\ current = NoTrack

\* how often track t occurs in the list q
Occurrences(q, t) == Cardinality({k \in 1..Len(q) : q[k] = t})

\* C11: shuffle() on a queue of N tracks returns N and leaves every track in
\* the queue as often as it was there before; the current track, the history
\* and the transport are untouched.
C11_ShuffleKeepsTracks ==
    [][ShuffleQueue =>
          /\ ret' = Returned("shuffle", Len(queue))
          /\ Len(queue') = Len(queue)
          /\ \A t \in 1..ShuffleTracks : Occurrences(queue', t) = Occurrences(queue, t)
          /\ UNCHANGED <<current, history, transport>>]_vars

C11_Witness ==
    /\ ret = Returned("shuffle", 2)
    /\ queue = <<4, 3>>
    /\ made = ShuffleTracks
    /\ current = 2
    /\ history = <<1>>
    /\ vstate = "playing"

StopReturns == StopFinish \/ (StopBegin /\ voice # "conn")

\* nothing of the session is left: no watcher, no updater, no buffered-enqueue
\* task, no pending or current track, no voice client, no consumer task
TornDown ==
    /\ ~disconnect_watch_task
    /\ watch_pc = "none"
    /\ ~np_update_task
    /\ bg_tasks = NoBgTasks
    /\ queue = <<>>
    /\ current = NoTrack
    /\ voice = "none"
    /\ player_task = NoTask
    /\ LiveTasks = {}

\* C13: when a call of stop() returns, whatever ran while it was suspended, the
\* watcher, the updater and the buffered-enqueue tasks are cancelled, the queue
\* is empty, no track is current, the transport is disconnected and no consumer
\* loop is running.
C13_StopTearsDown == [][StopReturns => TornDown']_vars

\* C14: stop() on a session that is already torn down raises nothing and
\* changes neither the queue, the current track, the history, the task
\* handles, the transport nor the clock.
C14_StopIdempotent ==
    [][(StopBegin /\ TornDown) =>
          /\ ret' = Returned("stop", 0)
          /\ TornDown'
          /\ UNCHANGED <<queue, current, history, tasks, player_task, bg_tasks,
                         updater, disconnect_watch_task, transport, stop_pc>>
          /\ UNCHANGED clock
          /\ UNCHANGED watchdog]_vars

C14_Witness ==
    /\ TornDown
    /\ ret = Returned("stop", 0)
    /\ stop_pc = "idle"
    /\ connected_at # NoTime
    /\ history = <<1>>
    /\ made = StopTracks

\* a poll in which the empty-room condition trips
EmptyTrip == WatchPoll /\ watch_pc' = "empty_trip"

\* a poll in which the idle condition trips
IdleTrip == WatchPoll /\ watch_pc' = "idle_trip"

\* C15: the empty-room condition trips only when the audience is zero and has
\* been zero for at least 30 s: the timer that trips it was started by a poll
\* of the current connection (which a member who was present made) and has run
\* for 30 s or more.  A poll that sees no audience with a timer at 30 s or more
\* trips, and a tripped watcher goes on to call stop().
C15_EmptyRoomThreshold ==
    /\ [][EmptyTrip =>
            /\ audience = 0
            /\ empty_since # NoTime
            /\ now - empty_since >= EMPTY_CHANNEL_DISCONNECT_SECONDS
            /\ empty_since >= connected_at]_vars
    /\ [][(WatchPoll /\ voice = "conn" /\ audience = 0 /\ empty_since # NoTime
              /\ now - empty_since >= EMPTY_CHANNEL_DISCONNECT_SECONDS) => EmptyTrip]_vars
    /\ [][(watch_pc = "empty_trip" /\ watch_pc' # "empty_trip") => WatchStop]_vars

\* the watcher has tripped and is about to call stop()
Tripped == watch_pc \in {"empty_trip", "idle_trip"}

\* C16: whichever condition trips, the watcher calls stop() once and its loop
\* is over: stop() is called from a tripped watcher only, a tripped watcher's
\* only next step ends the loop, after its stop() the loop is gone together
\* with its handle, and a live loop is always the one the handle refers to (so
\* there is at most one).
C16_WatchdogStopsOnce ==
    /\ [][WatchStop => (Tripped /\ watch_pc' = "none" /\ ~disconnect_watch_task')]_vars
    /\ [][(Tripped /\ watch_pc' # watch_pc) => watch_pc' = "none"]_vars
    /\ [][(watch_pc = "none" /\ watch_pc' # "none") =>
            (~disconnect_watch_task /\ watch_pc' = "sleeping")]_vars
    /\ [](watch_pc # "none" => disconnect_watch_task)

\* the watcher's stop() has ended the session and the loop is gone
C16_Witness ==
    /\ ret.op = "stop"
    /\ watch_pc = "none"
    /\ ~disconnect_watch_task
    /\ queue = <<>>
    /\ current = NoTrack
    /\ now >= IDLE_DISCONNECT_SECONDS

\* C17: the idle condition trips only when the session is idle (no consumer
\* loop is resolving or playing a track, the transport neither plays nor is
\* paused), the queue is empty and nothing has marked activity for the idle
\* threshold.
C17_IdleOnlyWhenIdle ==
    [][IdleTrip =>
         /\ InFlightLoops = {}
         /\ vstate = "idle"
         /\ queue = <<>>
         /\ now - last_activity >= IDLE_DISCONNECT_SECONDS]_vars

\* C18: pause() and resume() are idempotent: pause() on a paused transport
\* leaves it paused with the pause timestamp, the paused total and the start
\* timestamp as they were (a paused transport always has a pause timestamp);
\* resume() on a transport that is not paused leaves the transport, the pause
\* timestamp and the paused total as they were.
C18_PauseResumeIdempotent ==
    /\ [][(Pause /\ vstate = "paused") =>
            (vstate' = "paused"
               /\ UNCHANGED <<paused_at, paused_total, started_monotonic>>)]_vars
    /\ [][(Resume /\ vstate # "paused") =>
            UNCHANGED <<vstate, vsource, paused_at, paused_total>>]_vars
    /\ [](vstate = "paused" => paused_at # NoTime)

\* a pause() issued on a transport paused earlier: the activity clock is at the
\* second pause, the pause timestamp at the first
C18_Witness ==
    /\ vstate = "paused"
    /\ ret.op = "pause"
    /\ paused_at # NoTime
    /\ last_activity > paused_at

\* C19: the stored volume is always within 0.0 .. 2.0; set_volume stores and
\* returns its argument clamped to that range; volume_up and volume_down move
\* by one step and saturate at the limits; a track that starts is given the
\* stored volume.
C19_VolumeClamped ==
    /\ [](volume \in 0 .. MaxVolume)
    /\ [][\A v \in VolumeInputs : SetVolume(v) =>
            /\ v < 0 => volume' = 0
            /\ v > MaxVolume => volume' = MaxVolume
            /\ v \in 0 .. MaxVolume => volume' = v
            /\ ret' = Returned("set_volume", volume')]_vars
    /\ [][VolumeUp => volume' = IF volume + VOLUME_STEP > MaxVolume
                                THEN MaxVolume ELSE volume + VOLUME_STEP]_vars
    /\ [][VolumeDown => volume' = IF volume - VOLUME_STEP < 0
                                  THEN 0 ELSE volume - VOLUME_STEP]_vars
    /\ [][(\E i \in Slots : ResolveOk(i)) => vvolume' = volume]_vars

\* a track started at the upper limit after the volume was raised to it
C19_Witness ==
    /\ vstate = "playing"
    /\ volume = MaxVolume
    /\ vvolume = MaxVolume
    /\ ret = Returned("set_volume", MaxVolume)
    /\ history # <<>>

\* an edit of the panel message returned
SuccessfulEdit == UpdaterEdited("ok") \/ \E e \in EditSlots : ForcedEdited(e, "ok")

\* C20: the refresh interval starts at 1.0 and is within 1.0 .. 5.0 whatever
\* edits succeeded or were rate-limited; a successful edit sets it to
\* max(1.0, interval * 0.9), which is not above the interval before and not
\* below 1.0.
C20_IntervalBounds ==
    /\ np_interval = One
    /\ [](~Less(np_interval, One) /\ ~Less(Five, np_interval))
    /\ [][SuccessfulEdit =>
            /\ np_interval' = IF Less(Times(np_interval, 9, 10), One)
                              THEN One ELSE Times(np_interval, 9, 10)
            /\ ~Less(np_interval, np_interval')
            /\ ~Less(np_interval', One)]_vars

\* five successful edits in a row after the interval reached 5.0: 5 * 0.9^5
C20_Witness ==
    /\ np_interval = [n |-> 59049, d |-> 20000]
    /\ last_np_edit > 0

\* an edit of the panel message raised discord.HTTPException
RateLimitedEdit ==
    UpdaterEdited("rate_limited") \/ \E e \in EditSlots : ForcedEdited(e, "rate_limited")

\* C21: a rate-limited edit sets the refresh interval to min(5.0, interval *
\* 1.5): the interval is strictly larger than before unless it was already at
\* 5.0, and never above 5.0.
C21_RateLimitGrows ==
    [][RateLimitedEdit =>
         /\ np_interval' = IF Less(Five, Times(np_interval, 3, 2))
                           THEN Five ELSE Times(np_interval, 3, 2)
         /\ Less(np_interval, Five) => Less(np_interval, np_interval')
         /\ ~Less(Five, np_interval')
         /\ UNCHANGED last_np_edit]_vars

\* the interval reached the cap by rate-limited edits alone
C21_Witness ==
    /\ np_interval = Five
    /\ last_np_edit = 0
    /\ current # NoTrack

\* C22: a forced update of an existing panel message awaits the edit whatever
\* time has passed since the last successful edit (with or without a current
\* track), and the outcome of that edit adjusts the interval like any other: a
\* success shrinks it and stamps the last edit, an HTTPException grows it.
C22_ForcedBypassesInterval ==
    /\ [](\A e \in EditSlots :
            (panel_message /\ forced_edits[e] = NoTime) => ENABLED ForcedUpdate(e))
    /\ [][\A e \in EditSlots : ForcedUpdate(e) =>
            (forced_edits'[e] = now /\ UNCHANGED throttle)]_vars
    /\ [][\A e \in EditSlots : ForcedEdited(e, "ok") =>
            /\ last_np_edit' = forced_edits[e]
            /\ np_interval' = IF Less(Times(np_interval, 9, 10), One)
                              THEN One ELSE Times(np_interval, 9, 10)]_vars
    /\ [][\A e \in EditSlots : ForcedEdited(e, "rate_limited") =>
            np_interval' = IF Less(Five, Times(np_interval, 3, 2))
                           THEN Five ELSE Times(np_interval, 3, 2)]_vars

\* a forced edit awaited at the very time of the last successful edit, inside
\* the interval
C22_Witness ==
    /\ last_np_edit > 0
    /\ TooSoon(now)
    /\ np_edit = NoTime
    /\ \E e \in EditSlots : forced_edits[e] = now

\* an edit of the panel message raised
FailedEdit ==
    \/ RateLimitedEdit
    \/ UpdaterEdited("error")
    \/ \E e \in EditSlots : ForcedEdited(e, "error")

C24_ElapsedExcludesPauses ==
    /\ [](Elapsed >= 0 /\ (started_monotonic = NoTime => Elapsed = 0))
    /\ [](started_monotonic # NoTime =>
            \/ Elapsed = 0
            \/ Elapsed = (now - started_monotonic)
                           - (paused_total + IF paused_at # NoTime THEN now - paused_at ELSE 0))
    /\ [][(Pause \/ Resume) => Elapsed' = Elapsed]_vars
    /\ [][vstate = "paused" =>
            (Elapsed' = Elapsed \/ started_monotonic' # started_monotonic)]_vars

\* a track resumed after a pause that lasted: the pause is left out
C24_Witness ==
    /\ vstate = "playing"
    /\ ret.op = "resume"
    /\ paused_total > 0
    /\ Elapsed > 0
    /\ Elapsed < now - started_monotonic

\* C25: status_dict() changes nothing of the session (queue, current track,
\* history, clock, volume, throttle, task handles, transport); it reports the
\* number of pending tracks as the queue length and, as the preview, the first
\* tracks of the queue in queue order, ten at most.
C25_StatusIsPureRead ==
    [][StatusDict =>
         /\ UNCHANGED <<queue, current, history, clock, sound, throttle, updater, ui,
                        tasks, player_task, disconnect_watch_task, bg_tasks,
                        transport, track_done, watchdog, stop_pc>>
         /\ ret'.val.queue_len = Len(queue)
         /\ Len(ret'.val.queue_preview) <= PreviewLen
         /\ Len(ret'.val.queue_preview) <= Len(queue)
         /\ Len(queue) <= PreviewLen => Len(ret'.val.queue_preview) = Len(queue)
         /\ \A i \in 1 .. Len(ret'.val.queue_preview) :
              ret'.val.queue_preview[i] = queue[i]]_vars

\* a status read with more pending tracks than the preview shows
C25_Witness ==
    /\ ret.op = "status_dict"
    /\ ret.val.queue_len > PreviewLen
    /\ Len(ret.val.queue_preview) = PreviewLen
    /\ ret.val.queue_len = Len(queue)
    /\ ret.val.current = current
    /\ current # NoTrack

\* C26: whenever the consumer loop is blocked in queue.get() on the empty
\* queue, the session has no current track.
C26_IdleHasNoCurrent ==
    \A i \in Slots : tasks[i] = "blocked" => current = NoTrack

\* track t is at the head of the queue while the session's consumer loop is
\* blocked in queue.get() and the transport is connected
HeadInsertedIdle(t) ==
    /\ voice = "conn"
    /\ queue # <<>>
    /\ Head(queue) = t
    /\ player_task # NoTask
    /\ tasks[player_task] = "blocked"

\* C27: a track put at the head of the queue while the consumer loop is
\* blocked on the empty queue, the transport connected, eventually becomes the
\* current track of a loop that resolves or plays it.
C27_HeadInsertWakes ==
    \A t \in 1 .. HeadTracks :
        HeadInsertedIdle(t) ~> (current = t /\ InFlightLoops # {})

\* C28: enrichment leaves every field that was known before the resolution as
\* it was: title, artist, duration, canonical URL and thumbnail.
C28_EnrichKeepsKnown ==
    [][EnrichCurrent =>
         /\ track_fields.title \notin {Unknown, ""} =>
                track_fields'.title = track_fields.title
         /\ track_fields.artist \notin {Unknown, ""} =>
                track_fields'.artist = track_fields.artist
         /\ track_fields.duration # NoDuration =>
                track_fields'.duration = track_fields.duration
         /\ track_fields.webpage_url \notin {Unknown, ""} =>
                track_fields'.webpage_url = track_fields.webpage_url
         /\ track_fields.thumbnail \notin {Unknown, ""} =>
                track_fields'.thumbnail = track_fields.thumbnail]_vars


\* task i takes a track off the queue and goes on to resolve it, coming from
\* queue.get() or from the end of a track that played
PopsTrack(i) ==
    /\ tasks'[i] = "resolving"
    /\ ConsumerGet(i) \/ PanelPosted(i) \/ TrackDone(i)

\* the track task i popped fails to resolve or to start, and no further track
\* is pending
FailsTrack(i) ==
    /\ queue = <<>>
    /\ ResolveFail(i) \/ StartFail(i)

\* C29: a track that is popped and then fails to resolve or to start leaves
\* last-activity, playback-start, pause-began and the paused total with the
\* values they had before the pop.  The pop is one step of the loop and the
\* failure the next one, and every popped track can fail, so neither step may
\* change the four values.
C29_FailureLeavesClock ==
    [][(\E i \in Slots : PopsTrack(i) \/ FailsTrack(i)) =>
         UNCHANGED <<last_activity, started_monotonic, paused_at, paused_total>>]_vars


\* loop i finds the completion event of its track set: lines 906-910
EndsTrack(i) ==
    /\ track_done = "set"
    /\ PanelPosted(i) \/ TrackDone(i)

\* the except-branch of loop i: the track it popped failed to resolve or start
ExceptBranch(i) == ResolveFail(i) \/ StartFail(i)

\* q is what is left of p after tracks were taken from its head
IsSuffix(q, p) ==
    /\ Len(q) <= Len(p)
    /\ q = SubSeq(p, Len(p) - Len(q) + 1, Len(p))

\* C30: the track a loop started stays the current track until the loop sees
\* its completion event (natural end and skip() both only set that event),
\* unless stop() clears it; the loop then appends it to the history, once, and
\* nothing else ever adds to the history.  A track whose resolution or start
\* failed is not appended, and the loop puts nothing back into the queue.
C30_HistoryPush ==
    [][/\ \A i \in Slots :
            /\ (tasks[i] \in InFlightPcs /\ tasks'[i] \in {"posting", "waiting"}) =>
                   current' \in {current, NoTrack}
            /\ (EndsTrack(i) /\ current # NoTrack) =>
                   history' = HistoryAppend(history, current)
            /\ (EndsTrack(i) /\ current = NoTrack) => history' = history
            /\ ExceptBranch(i) => history' = history /\ IsSuffix(queue', queue)
            /\ EndsTrack(i) => IsSuffix(queue', queue)
       /\ Len(history') > Len(history) => \E i \in Slots : EndsTrack(i)
       /\ Len(history') = Len(history) => history' = history]_vars

\* a started track ended by skip() is in the history, after an earlier track
\* failed and was left out of it
C30_Witness ==
    /\ ret.op = "skip"
    /\ errors > 0
    /\ history = <<2>>
    /\ current = 2
    /\ \A i \in Slots : tasks[i] \in {"free", "blocked"}

\* a command or queue mutation that takes effect
ActivityCommand ==
    \/ ActivityAdd
    \/ ActivityAddNext
    \/ ActivityRemove
    \/ ActivitySkipTo
    \/ ShuffleQueue
    \/ ClearQueue
    \/ Skip
    \/ Previous /\ history # <<>>
    \/ Pause
    \/ Resume
    \/ ActivityVolume

\* C31: every command and every queue mutation (enqueue, enqueue at the front,
\* remove, skip_to, shuffle, clear, skip, previous, pause, resume, set_volume)
\* leaves the last-activity timestamp at the time of the call.
C31_CommandsMarkActivity ==
    [][ActivityCommand => last_activity' = now]_vars

\* C32: skip() called while nothing is current and the transport neither plays
\* nor is paused changes nothing: queue, current track, history, transport and
\* the four timestamps of the activity clock stay as they are.
C32_SkipIdleNoOp ==
    [][(Skip /\ current = NoTrack /\ vstate = "idle") =>
         UNCHANGED <<queue, current, history, transport, last_activity,
                     started_monotonic, paused_at, paused_total>>]_vars

\* C33: when the updater's edit fails because the panel message is gone, the
\* refresh interval stays as it was (the failure is not counted as a rate
\* limit) and the updater is disarmed: its task has ended or the session no
\* longer refers to the panel, so that no round of the updater edits that
\* message again before the panel is posted anew.
C33_FatalStopsUpdater ==
    [][UpdaterEdited("not_found") =>
         /\ UNCHANGED np_interval
         /\ ~(np_update_task' /\ panel_message')]_vars

\* a poll of the watcher that finds the transport connected and members in the
\* voice channel
PollSeesMembers == WatchPoll /\ watch_pc' # "none" /\ audience > 0

\* C34: a poll that sees members clears the empty-since timestamp; the
\* timestamp is only ever set by a poll that sees nobody, to the time of that
\* poll; and the empty-room stop is only decided by a poll that sees nobody a
\* full threshold after the timestamp.  An empty period before a poll that saw
\* members therefore never counts towards the threshold.
C34_EmptyTimerCleared ==
    [][/\ PollSeesMembers => empty_since' = NoTime
       /\ empty_since' \notin {empty_since, NoTime} =>
            (WatchPoll /\ audience = 0 /\ empty_since' = now)
       /\ (watch_pc' = "empty_trip" /\ watch_pc # "empty_trip") =>
            /\ WatchPoll
            /\ audience = 0
            /\ empty_since # NoTime
            /\ now - empty_since >= EMPTY_CHANNEL_DISCONNECT_SECONDS]_vars

\* an earlier poll saw nobody and started the timer, a member has come back,
\* and the poll that is due now will see the member
C34_Witness ==
    /\ watch_pc = "sleeping"
    /\ now >= watch_wake
    /\ voice = "conn"
    /\ audience > 0
    /\ empty_since # NoTime
    /\ now - empty_since >= WatchPeriod

\* stop() has returned and ensure_voice has not connected again: the session
\* has no voice client
Stopped == voice = "none" /\ stop_pc = "idle"

\* C35: once stop() has returned, and until ensure_voice connects again, no
\* track becomes the current track, nothing is started on the transport and
\* no track reaches the history; only ensure_voice gives the session a voice
\* client again.  A track enqueued in between is taken off the queue by the
\* loop and not played.
C35_StoppedIsTerminal ==
    [][Stopped =>
         /\ current' \in {current, NoTrack}
         /\ vstate' \in {vstate, "idle"}
         /\ vsource' \in {vsource, NoTrack}
         /\ Len(history') <= Len(history)
         /\ voice' # "none" => EnsureVoiceBody]_vars

\* after a stop() of a connected session a track was enqueued without
\* reconnecting; the loop took it and returned, and nothing plays
C35_Witness ==
    /\ Stopped
    /\ connected_at # NoTime
    /\ ret.op = "add_track"
    /\ queue = <<>>
    /\ current = NoTrack
    /\ vstate = "idle"
    /\ player_task # NoTask
    /\ tasks[player_task] = "done"

\* C36: a stop() awaited by the watcher ends as a stop() issued by a command
\* does: no voice client is referenced, the consumer task is cancelled and its
\* handle cleared, the queue is empty and nothing is current.
C36_WatchdogStopTearsDown ==
    [][WatchStop =>
         /\ voice' = "none"
         /\ player_task' = NoTask
         /\ \A i \in Slots : tasks'[i] \notin LivePcs
         /\ queue' = <<>>
         /\ current' = NoTrack]_vars

\* the transport is playing the current track, or holds it paused
CurrentOnTransport == vstate \in {"playing", "paused"} /\ vsource = current

\* C37: a completion callback only sets the event of the track it was
\* registered for.  The event the loop created for its current track is
\* therefore never set while that track is still being resolved or is still on
\* the transport, and the loop never leaves a track that is still on the
\* transport.
C37_CallbackOwnTrack ==
    [][/\ (AfterPlay /\ track_done = "unset" /\ current # NoTrack) =>
            /\ \A i \in Slots : tasks[i] # "resolving"
            /\ ~CurrentOnTransport
       /\ \A i \in Slots : (EndsTrack(i) /\ current # NoTrack) => ~CurrentOnTransport]_vars

\* the session is idle: its consumer loop is blocked in queue.get() and the
\* transport plays nothing
SessionIdle ==
    /\ player_task # NoTask
    /\ tasks[player_task] = "blocked"
    /\ vstate = "idle"

\* C38: previous() on an idle session with a non-empty history puts exactly one
\* track into the queue, the popped history entry, at the head.
C38_PreviousIdleAddsOne ==
    [][(Previous /\ SessionIdle /\ history # <<>>) =>
         /\ Len(queue') = Len(queue) + 1
         /\ queue' = <<history[Len(history)]>> \o queue]_vars

\* a step of the consumer loop run by task i
LoopStep(i) ==
    ConsumerGet(i) \/ ResolveFail(i) \/ StartFail(i) \/ PanelPosted(i) \/ TrackDone(i)

\* C39: a track the loop takes off the queue becomes the current track of a
\* loop that goes on to resolve it (from where it is started or dropped through
\* the logged except-branch); a loop that finds the transport not connected
\* leaves the queue as it is.
C39_NoSilentLoss ==
    [][\A i \in Slots : (LoopStep(i) /\ queue' # queue) =>
            /\ current' = Head(queue)
            /\ tasks'[i] = "resolving"]_vars

====
